---- MODULE Spec2Model ----
(***************************************************************************)
(* Model of the quiz-game session server (the Hono app over a key-value    *)
(* store) and of the host dashboard that drives it.                        *)
(*                                                                         *)
(* The six keys of one session (quiz, participants, blocks, questions,     *)
(* answers, guesses) are the state.  Every route handler is given twice,   *)
(* from the same pure operators: once as one atomic action (a request      *)
(* served alone), and once split at its awaits on kv.get / kv.set (the     *)
(* requests of SpecConc, which interleave at exactly those points).        *)
(***************************************************************************)
EXTENDS Integers, Sequences, FiniteSets, TLC

VARIABLES
    quiz,          \* kv "quiz:<code>"
    participants,  \* kv "quiz:<code>:participants"
    blocks,        \* kv "quiz:<code>:blocks"
    questionsMap,  \* kv "quiz:<code>:questions" (block id -> questions)
    answers,       \* kv "quiz:<code>:answers"
    guesses,       \* kv "quiz:<code>:guesses"
    ui,            \* the host dashboard's local React state
    last,          \* the last request served: what was asked and what came back
    reqs           \* the requests in flight (handlers suspended at an await)

store == <<quiz, participants, blocks, questionsMap, answers, guesses>>
vars  == <<quiz, participants, blocks, questionsMap, answers, guesses, ui, last, reqs>>

----------------------------------------------------------------------------
(* Bounds of the model *)

MaxPlayers == 2
MaxHostBlocks == 1
MaxQs == 2
MaxInFlight == 2

----------------------------------------------------------------------------
(* Values *)

\* JavaScript null / undefined of an id field; ids (crypto.randomUUID) are 1, 2, ...
Null == 0
\* a field that the request body does not carry
Absent == -1

QuizStatus == {"CREATION", "PLAY", "FINISHED"}
QuizPhase  == {"QUESTION", "AUTHOR_GUESS", "AUTHOR_REVEAL", "GRADING"}
NoPhase    == "undefined"

HostActions == {"START_GAME", "NEXT_QUESTION", "REVEAL_AUTHOR", "NEXT_BLOCK",
                "FINISH_GAME", "RESTART_GAME", "SET_STATE"}

Range(s) == {s[i] : i \in DOMAIN s}

\* Array.prototype.findIndex, 1-based; 0 when nothing matches (JavaScript's -1);
\* test maps each element to what the callback returns for it
FindIndex(s, test) ==
    IF \E i \in DOMAIN s : test[s[i]]
    THEN CHOOSE i \in DOMAIN s : test[s[i]] /\ \A j \in 1..(i - 1) : ~test[s[j]]
    ELSE 0

\* questionsMap[blockId] || []
QsOf(qm, b) == IF b \in DOMAIN qm THEN qm[b] ELSE <<>>

\* every id the session refers to
IdsOfQuestions(qm) == UNION {{q.id : q \in Range(qm[b])} : b \in DOMAIN qm}

Used(q, ps, bs, qm, as, gs) ==
    {p.id : p \in Range(ps)}
    \cup {b.id : b \in Range(bs)} \cup DOMAIN qm
    \cup {b.author_participant_id : b \in Range(bs)}
    \cup IdsOfQuestions(qm)
    \cup {a.question_id : a \in Range(as)}
    \cup {a.participant_id : a \in Range(as)}
    \cup {g.block_id : g \in Range(gs)}
    \cup {g.guesser_participant_id : g \in Range(gs)}
    \cup {g.guessed_participant_id : g \in Range(gs)}
    \cup {q.current_block_id, q.current_question_id}

UsedIds == Used(quiz, participants, blocks, questionsMap, answers, guesses)

\* crypto.randomUUID(): the k-th id that nothing refers to.  Ids are written
\* 101, 102, ... for participants, 201, ... for blocks and 301, ... for questions,
\* so that a trace can be read; no handler looks inside an id.
IdBase(kind) == CASE kind = "participant" -> 100 [] kind = "block" -> 200 [] OTHER -> 300

FreshId(used, kind, k) ==
    LET free(i) == (IdBase(kind) + i) \notin used
    IN  IdBase(kind) +
        (CHOOSE i \in 1..(Cardinality(used) + k) :
            free(i) /\ Cardinality({j \in 1..i : free(j)}) = k)

RandomUUID(kind, k) == FreshId(UsedIds, kind, k)

----------------------------------------------------------------------------
(* The quiz object *)

\* POST /quiz/create: the quiz object stored for a new session
NewQuiz(guessing) ==
    [status |-> "CREATION",
     phase |-> "QUESTION",
     current_block_id |-> Null,
     current_question_id |-> Null,
     enable_author_guessing |-> guessing]

----------------------------------------------------------------------------
(* POST /quiz/join *)

\* a display name is the sequence of its characters
IsSpace(c) == c = " "

RECURSIVE TrimStart(_)
TrimStart(s) == IF s # <<>> /\ IsSpace(Head(s)) THEN TrimStart(Tail(s)) ELSE s

RECURSIVE TrimEnd(_)
TrimEnd(s) ==
    IF s # <<>> /\ IsSpace(s[Len(s)]) THEN TrimEnd(SubSeq(s, 1, Len(s) - 1)) ELSE s

\* String.prototype.trim
Trim(s) == TrimEnd(TrimStart(s))

LowerChar(c) == CASE c = "A" -> "a" [] c = "B" -> "b" [] c = "L" -> "l" [] OTHER -> c

\* String.prototype.toLowerCase
ToLowerCase(s) == [i \in DOMAIN s |-> LowerChar(s[i])]

\* (p.display_name || '').toLowerCase().trim()
NormalizeName(s) == Trim(ToLowerCase(s))

\* the whole handler on the participants it read: what it stores and returns
JoinResult(ps, name, token, newId) ==
    LET display_name == Trim(name)
        byToken == FindIndex(ps, [p \in Range(ps) |-> p.player_token = token])
        byName  == FindIndex(ps, [p \in Range(ps) |->
                       NormalizeName(p.display_name) = NormalizeName(display_name)])
    IN  IF display_name = <<>>
        THEN [result |-> "400", write |-> FALSE, participants |-> ps,
              participant |-> Null, is_rejoined |-> FALSE]
        ELSE IF byToken # 0
        THEN [result |-> "ok", write |-> FALSE, participants |-> ps,
              participant |-> ps[byToken].id, is_rejoined |-> TRUE]
        ELSE IF byName # 0
        THEN [result |-> "ok", write |-> TRUE,
              participants |-> [ps EXCEPT ![byName].player_token = token],
              participant |-> ps[byName].id, is_rejoined |-> TRUE]
        ELSE [result |-> "ok", write |-> TRUE,
              participants |-> Append(ps, [id |-> newId,
                                           display_name |-> display_name,
                                           player_token |-> token]),
              participant |-> newId, is_rejoined |-> FALSE]

Join(name, token) ==
    LET r == JoinResult(participants, name, token, RandomUUID("participant", 1))
    IN  /\ Len(r.participants) <= MaxPlayers
        /\ participants' = r.participants
        /\ last' = [op |-> "join", result |-> r.result, participant |-> r.participant,
                    is_rejoined |-> r.is_rejoined]
        /\ UNCHANGED <<quiz, blocks, questionsMap, answers, guesses, ui, reqs>>

----------------------------------------------------------------------------
(* POST /quiz/:code/block *)

\* !x for an id field: null and undefined are falsy
Falsy(x) == x \in {Null, Absent}

QuestionTypes == {"open", "mcq"}
AnswerTexts   == {"a", "b"}

\* b.author_type === 'host' || !b.author_participant_id  (as used by the routes)
IsHostAuthored(b) == b.author_type = "host" \/ Falsy(b.author_participant_id)

\* Array.prototype.sort with the comparator of the route: a stable sort on order_index
RECURSIVE InsertByOrderIndex(_, _)
InsertByOrderIndex(sorted, b) ==
    IF sorted = <<>> THEN <<b>>
    ELSE IF sorted[Len(sorted)].order_index <= b.order_index THEN Append(sorted, b)
    ELSE Append(InsertByOrderIndex(SubSeq(sorted, 1, Len(sorted) - 1), b),
                sorted[Len(sorted)])

RECURSIVE SortBlocks(_)
SortBlocks(bs) ==
    IF bs = <<>> THEN <<>>
    ELSE InsertByOrderIndex(SortBlocks(SubSeq(bs, 1, Len(bs) - 1)), bs[Len(bs)])

\* questions.map((q, idx) => ({...q, id: q.id || randomUUID(), block_id, index_in_block: idx}))
ProcessQuestions(questions, blockId, uuid) ==
    [idx \in DOMAIN questions |->
        [id |-> IF Falsy(questions[idx].id)
                THEN uuid[Cardinality({j \in 1..idx : Falsy(questions[j].id)})]
                ELSE questions[idx].id,
         block_id |-> blockId,
         index_in_block |-> idx - 1] @@ questions[idx]]

\* the whole handler on what it read; newBlockId and uuid[k] are the
\* crypto.randomUUID() values it draws for a new block and for the k-th new question
SaveBlockResult(q, bs, qm, participant_id, author_type, block_id, questions, newBlockId, uuid) ==
    LET existing == FindIndex(bs, [b \in Range(bs) |-> b.id = block_id])
        isHostBlock ==
            IF author_type = "host" THEN TRUE
            ELSE IF Falsy(participant_id)
                 THEN IF ~Falsy(block_id)
                      THEN existing # 0 /\ (Falsy(bs[existing].author_participant_id)
                                            \/ bs[existing].author_type = "host")
                      ELSE TRUE
                 ELSE FALSE
        hostIdx == FindIndex(bs, [b \in Range(bs) |-> b.id = block_id /\ IsHostAuthored(b)])
        playerIdx == FindIndex(bs, [b \in Range(bs) |-> b.author_participant_id = participant_id])
        found == IF isHostBlock
                 THEN (IF ~Falsy(block_id) THEN hostIdx ELSE 0)
                 ELSE playerIdx
        created == found = 0
        newBlock == IF isHostBlock
                    THEN [id |-> newBlockId, author_type |-> "host",
                          author_participant_id |-> Null,
                          is_locked |-> FALSE, order_index |-> -1]
                    ELSE [id |-> newBlockId, author_type |-> "player",
                          author_participant_id |-> participant_id,
                          is_locked |-> FALSE, order_index |-> 0]
        block == IF created THEN newBlock ELSE bs[found]
        newBlocks == SortBlocks(IF created THEN Append(bs, newBlock) ELSE bs)
        processed == ProcessQuestions(questions, block.id, uuid)
        newMap == [b \in DOMAIN qm \cup {block.id} |->
                      IF b = block.id THEN processed ELSE qm[b]]
    IN  IF q.status # "CREATION"
        THEN [result |-> "400", blocks |-> bs, questionsMap |-> qm, block |-> Null]
        ELSE IF isHostBlock /\ ~Falsy(block_id) /\ hostIdx = 0
        THEN [result |-> "404", blocks |-> bs, questionsMap |-> qm, block |-> Null]
        ELSE [result |-> "ok", blocks |-> newBlocks, questionsMap |-> newMap,
              block |-> block.id]

NumHostBlocks(bs) == Cardinality({i \in DOMAIN bs : bs[i].author_type = "host"})

SaveBlock(participant_id, author_type, block_id, questions) ==
    LET blockId == RandomUUID("block", 1)
        uuid == [k \in 1..MaxQs |-> RandomUUID("question", k)]
        r == SaveBlockResult(quiz, blocks, questionsMap, participant_id, author_type,
                             block_id, questions, blockId, uuid)
    IN  /\ NumHostBlocks(r.blocks) <= MaxHostBlocks
        /\ Len(r.blocks) <= MaxHostBlocks + MaxPlayers
        /\ blocks' = r.blocks
        /\ questionsMap' = r.questionsMap
        /\ last' = [op |-> "block", result |-> r.result, block |-> r.block]
        /\ UNCHANGED <<quiz, participants, answers, guesses, ui, reqs>>

----------------------------------------------------------------------------
(* POST /quiz/:code/action *)

\* the Fisher-Yates loop of START_GAME; rnd[i] is Math.floor(Math.random() * (i + 1))
\* drawn for the (0-based) position i
Swap(s, i, j) == [s EXCEPT ![i] = s[j], ![j] = s[i]]

RECURSIVE FisherYates(_, _, _)
FisherYates(s, i, rnd) ==
    IF i <= 0 THEN s
    ELSE FisherYates(Swap(s, i + 1, rnd[i] + 1), i - 1, rnd)

RandomDraws(n) ==
    {rnd \in [1..(n - 1) -> 0..(n - 1)] : \A i \in 1..(n - 1) : rnd[i] <= i}

\* a START_GAME that puts the players' blocks before the host's
OrderBlocksPlayersFirst(bs, shuffleBlocks, rnd) ==
    LET hostBlocks == SelectSeq(bs, LAMBDA b : b.author_type = "host")
        playerBlocks == SelectSeq(bs, LAMBDA b : b.author_type # "host")
    IN  (IF shuffleBlocks /\ Len(playerBlocks) > 1
         THEN FisherYates(playerBlocks, Len(playerBlocks) - 1, rnd)
         ELSE playerBlocks) \o hostBlocks

\* a START_GAME that takes the host's blocks by author_type and the players'
\* blocks by author_participant_id
OrderBlocksByTypeAndAuthor(bs, shuffleBlocks, rnd) ==
    LET hostBlocks == SelectSeq(bs, LAMBDA b : b.author_type = "host")
        playerBlocks == SelectSeq(bs, LAMBDA b : ~Falsy(b.author_participant_id))
    IN  hostBlocks \o (IF shuffleBlocks /\ Len(playerBlocks) > 1
                       THEN FisherYates(playerBlocks, Len(playerBlocks) - 1, rnd)
                       ELSE playerBlocks)

\* START_GAME: the block order it writes
OrderBlocks(bs, shuffleBlocks, rnd) ==
    LET hostBlocks == SelectSeq(bs, LAMBDA b :
            b.author_type = "host"
            \/ (Falsy(b.author_participant_id) /\ b.author_type # "player"))
        playerBlocks == SelectSeq(bs, LAMBDA b :
            b.author_type = "player"
            \/ (~Falsy(b.author_participant_id) /\ b.author_type # "host"))
        orderedPlayerBlocks ==
            IF shuffleBlocks /\ Len(playerBlocks) > 1
            THEN FisherYates(playerBlocks, Len(playerBlocks) - 1, rnd)
            ELSE playerBlocks
    IN  hostBlocks \o orderedPlayerBlocks

\* START_GAME: the quiz it writes, given the order it has just written
StartGame(q, orderedBlocks, qm) ==
    LET started == [q EXCEPT !.status = "PLAY", !.phase = "QUESTION"]
        firstQs == QsOf(qm, orderedBlocks[1].id)
    IN  IF Len(orderedBlocks) > 0
        THEN [started EXCEPT
                 !.current_block_id = orderedBlocks[1].id,
                 !.current_question_id =
                     IF Len(firstQs) > 0 THEN firstQs[1].id ELSE q.current_question_id]
        ELSE started

\* the shared "move to the block after position idx" of NEXT_QUESTION and NEXT_BLOCK
EnterBlock(q, nextBlock, qm) ==
    LET nextQs == QsOf(qm, nextBlock.id)
    IN  [q EXCEPT !.current_block_id = nextBlock.id,
                  !.current_question_id = IF Len(nextQs) > 0 THEN nextQs[1].id ELSE Null,
                  !.phase = "QUESTION"]

NextQuestion(q, bs, qm) ==
    LET currentBlockIdx == FindIndex(bs, [b \in Range(bs) |-> b.id = q.current_block_id])
        currentBlock == bs[currentBlockIdx]
        qs == QsOf(qm, currentBlock.id)
        currentIdx == FindIndex(qs, [x \in Range(qs) |-> x.id = q.current_question_id])
        shouldSkipGuessing == IsHostAuthored(currentBlock) \/ ~q.enable_author_guessing
    IN  IF currentBlockIdx = 0 THEN q
        ELSE IF currentIdx < Len(qs)
        THEN [q EXCEPT !.current_question_id = qs[currentIdx + 1].id,
                       !.phase = "QUESTION"]
        ELSE IF shouldSkipGuessing
        THEN IF currentBlockIdx < Len(bs)
             THEN EnterBlock(q, bs[currentBlockIdx + 1], qm)
             ELSE [q EXCEPT !.status = "FINISHED"]
        ELSE [q EXCEPT !.phase = "AUTHOR_GUESS", !.current_question_id = Null]

RevealAuthor(q) == [q EXCEPT !.phase = "AUTHOR_REVEAL"]

NextBlock(q, bs, qm) ==
    LET currentIdx == FindIndex(bs, [b \in Range(bs) |-> b.id = q.current_block_id])
    IN  IF currentIdx < Len(bs)
        THEN EnterBlock(q, bs[currentIdx + 1], qm)
        ELSE [q EXCEPT !.status = "FINISHED"]

FinishGame(q) == [q EXCEPT !.status = "FINISHED"]

\* a RESTART_GAME that clears the phase together with the pointers
RestartGameClearsPhase(q) ==
    [q EXCEPT !.status = "CREATION", !.phase = NoPhase,
              !.current_block_id = Null, !.current_question_id = Null]

\* a RESTART_GAME that clears the pointers and leaves the status as it is
RestartGameKeepsStatus(q) ==
    [q EXCEPT !.phase = "QUESTION", !.current_block_id = Null, !.current_question_id = Null]

RestartGame(q) ==
    [q EXCEPT !.status = "CREATION", !.phase = "QUESTION",
              !.current_block_id = Null, !.current_question_id = Null]

\* SET_STATE: a falsy phase and an undefined pointer are left as they are
SetState(q, payload) ==
    [q EXCEPT
        !.phase = IF payload.phase # NoPhase THEN payload.phase ELSE @,
        !.current_question_id =
            IF payload.current_question_id # Absent THEN payload.current_question_id ELSE @,
        !.current_block_id =
            IF payload.current_block_id # Absent THEN payload.current_block_id ELSE @]

NoPayload == [shuffleBlocks |-> FALSE, phase |-> NoPhase,
              current_question_id |-> Absent, current_block_id |-> Absent]

\* the whole handler on what it read: the keys it writes, in the order it writes them
ActionResult(q, bs, qm, action, payload, rnd) ==
    LET orderedBlocks == OrderBlocks(bs, payload.shuffleBlocks, rnd)
        q1 == CASE action = "START_GAME"    -> StartGame(q, orderedBlocks, qm)
                [] action = "NEXT_QUESTION" -> NextQuestion(q, bs, qm)
                [] action = "REVEAL_AUTHOR" -> RevealAuthor(q)
                [] action = "NEXT_BLOCK"    -> NextBlock(q, bs, qm)
                [] action = "FINISH_GAME"   -> FinishGame(q)
                [] action = "RESTART_GAME"  -> RestartGame(q)
                [] action = "SET_STATE"     -> SetState(q, payload)
                [] OTHER                    -> q
    IN  [result |-> "ok",
         writesBlocks |-> action = "START_GAME",
         blocks |-> IF action = "START_GAME" THEN orderedBlocks ELSE bs,
         clearsGame |-> action = "RESTART_GAME",
         quiz |-> q1]

\* a RESTART_GAME that also flips every block's lock
HostActionRestartFlipsLocks(action, payload, rnd) ==
    LET r == ActionResult(quiz, blocks, questionsMap, action, payload, rnd)
    IN  /\ quiz' = r.quiz
        /\ blocks' = IF r.clearsGame
                     THEN [i \in DOMAIN r.blocks |-> [r.blocks[i] EXCEPT !.is_locked = ~@]]
                     ELSE r.blocks
        /\ answers' = IF r.clearsGame THEN <<>> ELSE answers
        /\ guesses' = IF r.clearsGame THEN <<>> ELSE guesses
        /\ last' = [op |-> action, result |-> r.result]
        /\ UNCHANGED <<participants, questionsMap, ui, reqs>>

\* the handler serving one request alone
HostAction(action, payload, rnd) ==
    LET r == ActionResult(quiz, blocks, questionsMap, action, payload, rnd)
    IN  /\ quiz' = r.quiz
        /\ blocks' = r.blocks
        /\ answers' = IF r.clearsGame THEN <<>> ELSE answers
        /\ guesses' = IF r.clearsGame THEN <<>> ELSE guesses
        /\ last' = [op |-> action, result |-> r.result]
        /\ UNCHANGED <<participants, questionsMap, ui, reqs>>

NumPlayerBlocks(bs) == Len(bs) - Len(SelectSeq(bs, LAMBDA b : b.author_type = "host"))

\* the random draws one START_GAME can make
Draws(bs, payload) == RandomDraws(IF payload.shuffleBlocks THEN NumPlayerBlocks(bs) ELSE 1)

----------------------------------------------------------------------------
(* GET /quiz/:code *)

\* the response built from the six values the handler read
GetStateResult(q, ps, bs, qm, as, gs, token) ==
    LET me == FindIndex(ps, [p \in Range(ps) |-> p.player_token = token])
        filteredBlocks ==
            IF q.status = "CREATION" /\ ~Falsy(token) /\ me # 0
            THEN SelectSeq(bs, LAMBDA b : b.author_participant_id = ps[me].id)
            ELSE bs
        cb == IF ~Falsy(q.current_block_id)
              THEN FindIndex(bs, [b \in Range(bs) |-> b.id = q.current_block_id]) ELSE 0
        cq == IF ~Falsy(q.current_question_id) /\ cb # 0
              THEN FindIndex(QsOf(qm, bs[cb].id),
                             [x \in Range(QsOf(qm, bs[cb].id)) |->
                                 x.id = q.current_question_id])
              ELSE 0
    IN  [quiz |-> q, participants |-> ps, blocks |-> filteredBlocks, questions |-> qm,
         answers |-> as, guesses |-> gs,
         currentBlock |-> IF cb # 0 THEN bs[cb].id ELSE Null,
         currentQuestion |-> IF cq # 0 THEN QsOf(qm, bs[cb].id)[cq].id ELSE Null]

----------------------------------------------------------------------------
(* The host dashboard (HostDashboard of pages/host/Dashboard.tsx) *)

\* useQuizState: the state the dashboard renders, fetched without a player token
HostView == GetStateResult(quiz, participants, blocks, questionsMap, answers, guesses, Absent)

CurrentBlockIdx(v) == FindIndex(v.blocks, [b \in Range(v.blocks) |-> b.id = v.currentBlock])
BlockQs(v) == IF v.currentBlock # Null THEN QsOf(v.questions, v.currentBlock) ELSE <<>>
CurrentQIdx(v) == FindIndex(BlockQs(v), [x \in Range(BlockQs(v)) |-> x.id = v.currentQuestion])

\* what a click does: send one action, open the finish dialog, or nothing
Send(action, payload) == [kind |-> "action", action |-> action, payload |-> payload]
OpenDialog == [kind |-> "dialog", action |-> "none", payload |-> NoPayload]
Nothing == [kind |-> "none", action |-> "none", payload |-> NoPayload]

SetStatePayload(phase, qid, bid) ==
    [shuffleBlocks |-> FALSE, phase |-> phase,
     current_question_id |-> qid, current_block_id |-> bid]

JumpToBlock(v, blockId) ==
    LET blockQs == QsOf(v.questions, blockId)
    IN  Send("SET_STATE", SetStatePayload("QUESTION",
             IF Len(blockQs) > 0 THEN blockQs[1].id ELSE Null, blockId))

\* a goNext that forgets that host blocks have no author to guess
GoNextGuessEveryBlock(v) ==
    LET blockQs == BlockQs(v)
        currentQIdx == CurrentQIdx(v)
        currentBlockIdx == CurrentBlockIdx(v)
        shouldSkipGuessing == ~v.quiz.enable_author_guessing
    IN  CASE v.quiz.phase = "QUESTION" ->
                IF currentQIdx < Len(blockQs)
                THEN Send("SET_STATE",
                          SetStatePayload(NoPhase, blockQs[currentQIdx + 1].id, Absent))
                ELSE IF shouldSkipGuessing
                THEN IF currentBlockIdx < Len(v.blocks)
                     THEN JumpToBlock(v, v.blocks[currentBlockIdx + 1].id)
                     ELSE Send("FINISH_GAME", NoPayload)
                ELSE Send("SET_STATE", SetStatePayload("AUTHOR_GUESS", Null, Absent))
          [] v.quiz.phase = "AUTHOR_GUESS" ->
                Send("SET_STATE", SetStatePayload("AUTHOR_REVEAL", Absent, Absent))
          [] v.quiz.phase = "GRADING" -> Send("FINISH_GAME", NoPayload)
          [] v.quiz.phase = "AUTHOR_REVEAL" ->
                IF currentBlockIdx < Len(v.blocks)
                THEN JumpToBlock(v, v.blocks[currentBlockIdx + 1].id)
                ELSE OpenDialog
          [] OTHER -> Nothing

GoNext(v) ==
    LET blockQs == BlockQs(v)
        currentQIdx == CurrentQIdx(v)
        currentBlockIdx == CurrentBlockIdx(v)
        isHostBlock == currentBlockIdx # 0 /\ IsHostAuthored(v.blocks[currentBlockIdx])
        shouldSkipGuessing == isHostBlock \/ ~v.quiz.enable_author_guessing
    IN  CASE v.quiz.phase = "QUESTION" ->
                IF currentQIdx < Len(blockQs)
                THEN Send("SET_STATE",
                          SetStatePayload(NoPhase, blockQs[currentQIdx + 1].id, Absent))
                ELSE IF shouldSkipGuessing
                THEN IF currentBlockIdx < Len(v.blocks)
                     THEN LET nextBlock == v.blocks[currentBlockIdx + 1]
                              nextQs == QsOf(v.questions, nextBlock.id)
                          IN  Send("SET_STATE", SetStatePayload("QUESTION",
                                   IF Len(nextQs) > 0 THEN nextQs[1].id ELSE Null,
                                   nextBlock.id))
                     ELSE Send("FINISH_GAME", NoPayload)
                ELSE Send("SET_STATE", SetStatePayload("AUTHOR_GUESS", Null, Absent))
          [] v.quiz.phase = "AUTHOR_GUESS" ->
                Send("SET_STATE", SetStatePayload("AUTHOR_REVEAL", Absent, Absent))
          [] v.quiz.phase = "GRADING" -> Send("FINISH_GAME", NoPayload)
          [] v.quiz.phase = "AUTHOR_REVEAL" ->
                IF currentBlockIdx < Len(v.blocks)
                THEN JumpToBlock(v, v.blocks[currentBlockIdx + 1].id)
                ELSE OpenDialog
          [] OTHER -> Nothing

GoBack(v) ==
    LET blockQs == BlockQs(v)
        currentQIdx == CurrentQIdx(v)
        currentBlockIdx == CurrentBlockIdx(v)
    IN  CASE v.quiz.phase = "AUTHOR_REVEAL" ->
                Send("SET_STATE", SetStatePayload("AUTHOR_GUESS", Absent, Absent))
          [] v.quiz.phase = "AUTHOR_GUESS" ->
                IF Len(blockQs) > 0
                THEN Send("SET_STATE",
                          SetStatePayload("QUESTION", blockQs[Len(blockQs)].id, Absent))
                ELSE Nothing
          [] v.quiz.phase = "QUESTION" ->
                IF currentQIdx > 1
                THEN Send("SET_STATE",
                          SetStatePayload(NoPhase, blockQs[currentQIdx - 1].id, Absent))
                ELSE IF currentBlockIdx > 1
                THEN Send("SET_STATE", SetStatePayload("AUTHOR_REVEAL", Null,
                                           v.blocks[currentBlockIdx - 1].id))
                ELSE Nothing
          [] OTHER -> Nothing

\* "Start Grading" of the finish dialog
StartGrading(v) ==
    Send("SET_STATE", SetStatePayload("GRADING", Null,
             IF v.currentBlock # Null THEN v.currentBlock ELSE Absent))

\* which of the dashboard's buttons are rendered and enabled
PlayView(v) == v.quiz.status = "PLAY"
QuestionCard(v) == v.quiz.phase = "QUESTION" /\ v.currentQuestion # Null
Footer(v) == v.quiz.phase # "QUESTION"
NextEnabled(v) == PlayView(v) /\ (QuestionCard(v) \/ Footer(v))
BackEnabled(v) == PlayView(v) /\ ((QuestionCard(v) /\ CurrentQIdx(v) # 1) \/ Footer(v))
\* Object.values(questions).reduce((acc, qs) => acc + qs.length, 0)
TotalQuestions(v) ==
    Cardinality(UNION {{<<b, i>> : i \in DOMAIN v.questions[b]} : b \in DOMAIN v.questions})
StartEnabled(v) ==
    v.quiz.status = "CREATION" /\ Len(v.participants) # 0 /\ TotalQuestions(v) > 0

----------------------------------------------------------------------------
(* POST /quiz/:code/answer, /guess and /grade *)

\* is_correct of an Answer or a BlockGuess: true, false or null (not graded)
Tri(b) == IF b THEN "true" ELSE "false"
Ungraded == "null"

\* the loop over questionsMap that looks the question up by its id
FindQuestion(qm, question_id) ==
    LET hits == {q \in UNION {Range(qm[b]) : b \in DOMAIN qm} : q.id = question_id}
    IN  IF hits = {} THEN [id |-> Null, type |-> "none", correct_answer |-> "none"]
        ELSE CHOOSE q \in hits : TRUE

\* the answer row the handler builds
NewAnswer(qm, participant_id, question_id, answer_text) ==
    LET question == FindQuestion(qm, question_id)
    IN  [question_id |-> question_id,
         participant_id |-> participant_id,
         answer_text |-> answer_text,
         is_correct |-> IF question.type = "mcq"
                        THEN Tri(answer_text = question.correct_answer)
                        ELSE Ungraded]

\* an upsert that writes the new row alone, dropping the rows that were stored
UpsertDropsOthers(rows, existingIdx, row) == <<row>>

\* replace the row at existingIdx, or push
Upsert(rows, existingIdx, row) ==
    IF existingIdx >= 1 THEN [rows EXCEPT ![existingIdx] = row] ELSE Append(rows, row)

\* the answers array the handler writes back, from the array and the map it read
SubmitAnswerResult(as, qm, participant_id, question_id, answer_text) ==
    Upsert(as,
           FindIndex(as, [a \in Range(as) |-> a.question_id = question_id
                                    /\ a.participant_id = participant_id]),
           NewAnswer(qm, participant_id, question_id, answer_text))

\* a guess scored against the guesser instead of the guessed participant
NewGuessScoresGuesser(bs, participant_id, block_id, guessed_participant_id) ==
    LET block == FindIndex(bs, [b \in Range(bs) |-> b.id = block_id])
    IN  [block_id |-> block_id,
         guesser_participant_id |-> participant_id,
         guessed_participant_id |-> guessed_participant_id,
         is_correct |-> IF block # 0
                        THEN bs[block].author_participant_id = participant_id
                        ELSE FALSE]

\* the guess row the handler builds
NewGuess(bs, participant_id, block_id, guessed_participant_id) ==
    LET block == FindIndex(bs, [b \in Range(bs) |-> b.id = block_id])
    IN  [block_id |-> block_id,
         guesser_participant_id |-> participant_id,
         guessed_participant_id |-> guessed_participant_id,
         is_correct |-> IF block # 0
                        THEN bs[block].author_participant_id = guessed_participant_id
                        ELSE FALSE]

\* the guesses array the handler writes back, from the arrays it read
SubmitGuessResult(gs, bs, participant_id, block_id, guessed_participant_id) ==
    Upsert(gs,
           FindIndex(gs, [g \in Range(gs) |-> g.block_id = block_id
                                    /\ g.guesser_participant_id = participant_id]),
           NewGuess(bs, participant_id, block_id, guessed_participant_id))

\* the answers array after the host's grade (written back only when a row matched)
GradeResult(as, question_id, participant_id, is_correct) ==
    LET ans == FindIndex(as, [a \in Range(as) |-> a.question_id = question_id
                                        /\ a.participant_id = participant_id])
    IN  IF ans # 0 THEN [as EXCEPT ![ans].is_correct = Tri(is_correct)] ELSE as

SubmitAnswer(participant_id, question_id, answer_text) ==
    /\ answers' = SubmitAnswerResult(answers, questionsMap, participant_id, question_id,
                                     answer_text)
    /\ last' = [op |-> "answer", result |-> "ok", participant_id |-> participant_id,
                question_id |-> question_id, answer_text |-> answer_text]
    /\ UNCHANGED <<quiz, participants, blocks, questionsMap, guesses, ui, reqs>>

SubmitGuess(participant_id, block_id, guessed_participant_id) ==
    /\ guesses' = SubmitGuessResult(guesses, blocks, participant_id, block_id,
                                    guessed_participant_id)
    /\ last' = [op |-> "guess", result |-> "ok", participant_id |-> participant_id,
                block_id |-> block_id, guessed_participant_id |-> guessed_participant_id]
    /\ UNCHANGED <<quiz, participants, blocks, questionsMap, answers, ui, reqs>>

GradeAnswer(question_id, participant_id, is_correct) ==
    /\ answers' = GradeResult(answers, question_id, participant_id, is_correct)
    /\ last' = [op |-> "grade", result |-> "ok", participant_id |-> participant_id,
                question_id |-> question_id, is_correct |-> is_correct]
    /\ UNCHANGED <<quiz, participants, blocks, questionsMap, guesses, ui, reqs>>

\* a click carried out: the action it sends is served, or the dialog opens
Click(c, rnd) ==
    CASE c.kind = "action" -> HostAction(c.action, c.payload, rnd)
      [] c.kind = "dialog" ->
            /\ ui' = [ui EXCEPT !.showFinishConfirmation = TRUE]
            /\ last' = [op |-> "none", result |-> "ok"]
            /\ UNCHANGED <<store, reqs>>
      [] OTHER ->
            /\ last' = [op |-> "none", result |-> "ok"]
            /\ UNCHANGED <<store, ui, reqs>>

Modal == ui.showFinishConfirmation

\* "Lock Quiz & Start Playing"
ClickStart(shuffleBlocks) ==
    LET payload == [NoPayload EXCEPT !.shuffleBlocks = shuffleBlocks]
    IN  /\ StartEnabled(HostView) /\ ~Modal
        /\ \E rnd \in Draws(blocks, payload) : Click(Send("START_GAME", payload), rnd)

ClickNext ==
    /\ NextEnabled(HostView) /\ ~Modal
    /\ Click(GoNext(HostView), <<>>)

ClickBack ==
    /\ BackEnabled(HostView) /\ ~Modal
    /\ Click(GoBack(HostView), <<>>)

\* the block list and the Prev Block / Next Block buttons of the header
ClickJump(i) ==
    /\ PlayView(HostView) /\ ~Modal
    /\ i \in DOMAIN HostView.blocks
    /\ Click(JumpToBlock(HostView, HostView.blocks[i].id), <<>>)

\* the finish dialog's "Start Grading": close it, then send SET_STATE
ClickStartGrading ==
    LET r == ActionResult(quiz, blocks, questionsMap, "SET_STATE",
                          StartGrading(HostView).payload, <<>>)
    IN  /\ Modal
        /\ ui' = [ui EXCEPT !.showFinishConfirmation = FALSE]
        /\ quiz' = r.quiz
        /\ last' = [op |-> "SET_STATE", result |-> r.result]
        /\ UNCHANGED <<participants, blocks, questionsMap, answers, guesses, reqs>>

ClickCancel ==
    /\ Modal
    /\ ui' = [ui EXCEPT !.showFinishConfirmation = FALSE]
    /\ last' = [op |-> "none", result |-> "ok"]
    /\ UNCHANGED <<store, reqs>>

\* "Restart" of the results screen
ClickRestart ==
    /\ HostView.quiz.status = "FINISHED" /\ ~Modal
    /\ Click(Send("RESTART_GAME", NoPayload), <<>>)

----------------------------------------------------------------------------
(* The lobbies: what the join and block routes leave behind *)

\* the i-th player's name as typed and the token of their device
PlayerName(i) == IF i = 1 THEN <<"A", "l", " ">> ELSE [j \in 1..(i - 1) |-> "B"]
PlayerToken(i) == i

NewQuestion(type, correct_answer) ==
    [id |-> Absent, type |-> type, correct_answer |-> correct_answer]

\* a first draft of n questions, open and mcq in turn
Draft(n) == [i \in 1..n |-> NewQuestion(IF i % 2 = 1 THEN "open" ELSE "mcq", "a")]

RECURSIVE AfterJoins(_)
AfterJoins(n) ==
    IF n = 0 THEN <<>>
    ELSE LET ps == AfterJoins(n - 1)
         IN  JoinResult(ps, PlayerName(n), PlayerToken(n),
                        FreshId({p.id : p \in Range(ps)}, "participant", 1)).participants

\* saves[i] = [player |-> 0 for the host, else the player's number; n |-> questions]
RECURSIVE AfterSaves(_, _, _)
AfterSaves(q, ps, saves) ==
    IF saves = <<>> THEN [blocks |-> <<>>, questionsMap |-> <<>>]
    ELSE LET before == AfterSaves(q, ps, SubSeq(saves, 1, Len(saves) - 1))
             save == saves[Len(saves)]
             used == Used(q, ps, before.blocks, before.questionsMap, <<>>, <<>>)
             r == SaveBlockResult(q, before.blocks, before.questionsMap,
                      IF save.player = 0 THEN Absent ELSE ps[save.player].id,
                      IF save.player = 0 THEN "host" ELSE "player",
                      Absent, Draft(save.n),
                      FreshId(used, "block", 1),
                      [k \in 1..save.n |-> FreshId(used, "question", k)])
         IN  [blocks |-> r.blocks, questionsMap |-> r.questionsMap]

\* the orders in which some of the n players can have saved their block
InjectiveSeqs(n) ==
    UNION {{f \in [1..k -> 1..n] : \A i, j \in 1..k : i # j => f[i] # f[j]} : k \in 0..n}

SaveSeqs(n) ==
    {[i \in 1..(Len(hs) + Len(who)) |->
         IF i <= Len(hs) THEN [player |-> 0, n |-> hs[i]]
         ELSE [player |-> who[i - Len(hs)], n |-> cnt[i - Len(hs)]]] :
       hs \in UNION {[1..k -> 0..MaxQs] : k \in 0..MaxHostBlocks},
       who \in InjectiveSeqs(n),
       cnt \in [1..n -> 0..MaxQs]}

Lobby(guessing, n, saves) ==
    LET q == NewQuiz(guessing)
        ps == AfterJoins(n)
        saved == AfterSaves(q, ps, saves)
    IN  [quiz |-> q, participants |-> ps,
         blocks |-> saved.blocks, questionsMap |-> saved.questionsMap]

Lobbies ==
    UNION {{Lobby(g, n, saves) : g \in BOOLEAN, saves \in SaveSeqs(n)} : n \in 0..MaxPlayers}

----------------------------------------------------------------------------
(* The session served one request at a time *)

NoRequest == [op |-> "none", result |-> "ok"]

\* a session whose lobby has filled, before the host's first action
Init ==
    /\ \E lobby \in Lobbies :
          /\ quiz = lobby.quiz
          /\ participants = lobby.participants
          /\ blocks = lobby.blocks
          /\ questionsMap = lobby.questionsMap
    /\ answers = <<>>
    /\ guesses = <<>>
    /\ ui = [showFinishConfirmation |-> FALSE]
    /\ last = NoRequest
    /\ reqs = <<>>

\* the actions that carry no state pointer can be sent at any time (a stale
\* dashboard, a second click, the older dashboard); SET_STATE is sent by the
\* dashboard's navigation only
DirectActions == HostActions \ {"SET_STATE"}

Payloads(action) ==
    CASE action = "START_GAME" -> {[NoPayload EXCEPT !.shuffleBlocks = sh] : sh \in BOOLEAN}
      [] OTHER -> {NoPayload}

Next ==
    \/ \E action \in DirectActions : \E payload \in Payloads(action) :
          \E rnd \in Draws(blocks, payload) : HostAction(action, payload, rnd)
    \/ \E sh \in BOOLEAN : ClickStart(sh)
    \/ ClickNext
    \/ ClickBack
    \/ \E i \in 1..(MaxHostBlocks + MaxPlayers) : ClickJump(i)
    \/ ClickStartGrading
    \/ ClickCancel
    \/ ClickRestart

Spec == Init /\ [][Next]_vars

----------------------------------------------------------------------------
(* Properties of the session served one request at a time *)

\* C3: a START_GAME served right after a START_GAME leaves the stored block order
\* as the first call wrote it: the blocks are never ordered a second time.
C3_SecondStartGameKeepsOrder ==
    [][(last.op = "START_GAME" /\ last'.op = "START_GAME") => blocks' = blocks]_vars

\* the transition table has no row for this action in the current state
OffTable(action) ==
    CASE action = "START_GAME" -> quiz.status # "CREATION"
      [] action \in {"NEXT_QUESTION", "NEXT_BLOCK"} -> quiz.status # "PLAY"
      [] action = "REVEAL_AUTHOR" -> ~(quiz.status = "PLAY" /\ quiz.phase = "AUTHOR_GUESS")
      [] action = "FINISH_GAME" -> ~(quiz.status = "PLAY" /\ quiz.phase = "GRADING")
      [] action = "RESTART_GAME" -> quiz.status # "FINISHED"
      [] OTHER -> FALSE

\* C4: an action served in a state where the transition table has no row for it
\* leaves quiz, blocks, answers and guesses as they were.
C4_OffTableActionChangesNothing ==
    [][OffTable(last'.op) => UNCHANGED <<quiz, blocks, answers, guesses>>]_vars

\* the current block is the last one, and the controller stands at its end:
\* after its last question with guessing skipped, or at its author reveal
AtEndOfLastBlock ==
    LET idx == FindIndex(blocks, [b \in Range(blocks) |-> b.id = quiz.current_block_id])
        qs  == QsOf(questionsMap, quiz.current_block_id)
        at  == FindIndex(qs, [x \in Range(qs) |-> x.id = quiz.current_question_id])
    IN  /\ idx # 0 /\ idx = Len(blocks)
        /\ \/ quiz.phase = "AUTHOR_REVEAL"
           \/ /\ quiz.phase = "QUESTION"
              /\ at = Len(qs)
              /\ (IsHostAuthored(blocks[idx]) \/ ~quiz.enable_author_guessing)

\* C5: in PLAY, an ADVANCE with no block left to enter moves to phase GRADING with
\* status still PLAY, and status becomes FINISHED only by FINISH_GAME served in GRADING.
C5_AdvanceEndsInGrading ==
    [][quiz.status = "PLAY"
          => /\ (quiz'.status = "FINISHED"
                    => (quiz.phase = "GRADING" /\ last'.op = "FINISH_GAME"))
             /\ ((last'.op \in {"NEXT_QUESTION", "NEXT_BLOCK"} /\ AtEndOfLastBlock)
                    => (quiz'.status = "PLAY" /\ quiz'.phase = "GRADING"))]_vars

\* the session of the scenario: a host block of 2 questions, then the blocks of
\* players A and B with 1 question each, author guessing enabled
ScenarioSession ==
    /\ Len(participants) = 2 /\ Len(blocks) = 3
    /\ quiz.enable_author_guessing
    /\ blocks[1].author_type = "host" /\ Len(QsOf(questionsMap, blocks[1].id)) = 2
    /\ \A i \in {2, 3} : /\ blocks[i].author_type = "player"
                         /\ Len(QsOf(questionsMap, blocks[i].id)) = 1

\* status, phase, block and question (0: none) of the scenario's k-th state
ScenarioRow(k) ==
    CASE k = 0  -> <<"CREATION", "any", 0, 0>>
      [] k = 1  -> <<"PLAY", "QUESTION", 1, 1>>
      [] k = 2  -> <<"PLAY", "QUESTION", 1, 2>>
      [] k = 3  -> <<"PLAY", "QUESTION", 2, 1>>
      [] k = 4  -> <<"PLAY", "AUTHOR_GUESS", 2, 0>>
      [] k = 5  -> <<"PLAY", "AUTHOR_REVEAL", 2, 0>>
      [] k = 6  -> <<"PLAY", "QUESTION", 3, 1>>
      [] k = 7  -> <<"PLAY", "AUTHOR_GUESS", 3, 0>>
      [] k = 8  -> <<"PLAY", "AUTHOR_REVEAL", 3, 0>>
      [] k = 9  -> <<"PLAY", "GRADING", 3, 0>>
      [] OTHER  -> <<"FINISHED", "any", 0, 0>>

ScenarioAt(q, k) ==
    LET row == ScenarioRow(k)
    IN  /\ q.status = row[1]
        /\ row[2] = "any" \/ q.phase = row[2]
        /\ row[3] = 0 \/ q.current_block_id = blocks[row[3]].id
        /\ row[2] = "any" \/ q.current_question_id =
               (IF row[4] = 0 THEN Null ELSE questionsMap[blocks[row[3]].id][row[4]].id)

C8_QuestionNullIffNotQuestionPhase ==
    quiz.status = "PLAY"
        => ((quiz.current_question_id = Null)
                <=> (quiz.phase \in {"AUTHOR_GUESS", "AUTHOR_REVEAL", "GRADING"}))

\* C9: a START_GAME served in CREATION without a participant or without a question
\* does not start the game: the session stays in CREATION, its blocks unchanged.
C9_StartGameNeedsPlayersAndQuestions ==
    [][(last'.op = "START_GAME" /\ quiz.status = "CREATION"
            /\ (Len(participants) = 0 \/ IdsOfQuestions(questionsMap) = {}))
          => (quiz'.status = "CREATION" /\ blocks' = blocks)]_vars

----------------------------------------------------------------------------
(* The session served concurrently: every handler is suspended at each await   *)
(* on kv.get / kv.set, and the handlers of other requests run in between.      *)
(* reqs[r] is a request: its route, its body, the position of its handler, the *)
(* values the handler holds, and (for the properties) what it could observe.   *)

Keys == <<"quiz", "participants", "blocks", "questions", "answers", "guesses">>

\* the value stored under a key
KvGet(key) ==
    CASE key = "quiz" -> quiz
      [] key = "participants" -> participants
      [] key = "blocks" -> blocks
      [] key = "questions" -> questionsMap
      [] key = "answers" -> answers
      [] OTHER -> guesses

InFlight(rq, r) == rq[r].pc # "done"

\* a host action that has written some of its keys and not yet the quiz
MidTransition(req) ==
    /\ req.route = "action"
    /\ \/ req.body.action = "START_GAME" /\ req.pc = "setQuiz"
       \/ req.body.action = "RESTART_GAME" /\ req.pc \in {"setGuesses", "setQuiz"}

Committed(rq) == \A r \in DOMAIN rq : ~MidTransition(rq[r])

\* the polls in flight see the store st, if it is the store between two transitions
Observe(rq, st) ==
    [r \in DOMAIN rq |->
        IF rq[r].route = "state" /\ InFlight(rq, r) /\ Committed(rq)
        THEN [rq[r] EXCEPT !.seen = @ \cup {st}]
        ELSE rq[r]]

NewRequest(route, body) ==
    [route |-> route, body |-> body,
     pc |-> CASE route = "answer" -> "getAnswers"
              [] route = "guess" -> "getGuesses"
              [] OTHER -> "getQuiz",
     held |-> <<>>, raced |-> FALSE, pre |-> <<>>, result |-> "none",
     seen |-> IF route # "state" THEN {}
              ELSE IF Committed(reqs) THEN {store}
              ELSE {reqs[r].pre : r \in {x \in DOMAIN reqs : MidTransition(reqs[x])}}]

\* the names typed on the join page: the players' names, the first player's name
\* in lower case without its space, and a blank name
JoinNames ==
    {PlayerName(i) : i \in 1..(MaxPlayers + 1)} \cup {NormalizeName(PlayerName(1)), <<" ">>}

\* the tokens of the devices, and no token
JoinTokens == {Absent} \cup {PlayerToken(i) : i \in 1..(MaxPlayers + 1)}

PlayerIds == {p.id : p \in Range(participants)}
PlayerBlockIds == {b.id : b \in {x \in Range(blocks) : x.author_type = "player"}}

\* the requests the players' pages and the host's dashboard send
Bodies(route) ==
    CASE route = "answer" ->
            {[participant_id |-> p, question_id |-> q, answer_text |-> t] :
                p \in PlayerIds, q \in IdsOfQuestions(questionsMap), t \in AnswerTexts}
      [] route = "guess" ->
            {[participant_id |-> p, block_id |-> b, guessed_participant_id |-> g] :
                p \in PlayerIds, b \in PlayerBlockIds, g \in PlayerIds}
      [] route = "action" ->
            UNION {UNION {{[action |-> a, payload |-> payload, rnd |-> rnd] :
                              rnd \in Draws(blocks, payload)} :
                          payload \in Payloads(a)} :
                   a \in DirectActions}
      [] route = "join" ->
            {[display_name |-> n, player_token |-> t] : n \in JoinNames, t \in JoinTokens}
      [] OTHER -> {[token |-> Absent]}

Routes == {"answer", "guess", "action", "state"}

Receive(route, body) ==
    /\ Len(reqs) < MaxInFlight
    /\ reqs' = Append(reqs, NewRequest(route, body))
    /\ UNCHANGED <<store, ui, last>>

At(r, route, pc) == r \in DOMAIN reqs /\ reqs[r].route = route /\ reqs[r].pc = pc

\* await kv.get(key): the handler resumes holding the value
Hold(r, key, pc) ==
    reqs' = [reqs EXCEPT ![r].held = (key :> KvGet(key)) @@ @, ![r].pc = pc]

Served(r, result) == [reqs EXCEPT ![r].pc = "done", ![r].result = result]

(* POST /quiz/:code/answer *)

AnswerGetAnswers(r) ==
    /\ At(r, "answer", "getAnswers")
    /\ Hold(r, "answers", "getQuestions")
    /\ UNCHANGED <<store, ui, last>>

AnswerGetQuestions(r) ==
    /\ At(r, "answer", "getQuestions")
    /\ Hold(r, "questions", "setAnswers")
    /\ UNCHANGED <<store, ui, last>>

AnswerSetAnswers(r) ==
    LET held == reqs[r].held
        body == reqs[r].body
        written == SubmitAnswerResult(held.answers, held.questions, body.participant_id,
                                      body.question_id, body.answer_text)
    IN  /\ At(r, "answer", "setAnswers")
        /\ answers' = written
        /\ reqs' = Observe(Served(r, "ok"),
                           <<quiz, participants, blocks, questionsMap, written, guesses>>)
        /\ UNCHANGED <<quiz, participants, blocks, questionsMap, guesses, ui, last>>

(* POST /quiz/:code/guess *)

GuessGetGuesses(r) ==
    /\ At(r, "guess", "getGuesses")
    /\ Hold(r, "guesses", "getBlocks")
    /\ UNCHANGED <<store, ui, last>>

GuessGetBlocks(r) ==
    /\ At(r, "guess", "getBlocks")
    /\ Hold(r, "blocks", "setGuesses")
    /\ UNCHANGED <<store, ui, last>>

GuessSetGuesses(r) ==
    LET held == reqs[r].held
        body == reqs[r].body
        written == SubmitGuessResult(held.guesses, held.blocks, body.participant_id,
                                     body.block_id, body.guessed_participant_id)
    IN  /\ At(r, "guess", "setGuesses")
        /\ guesses' = written
        /\ reqs' = Observe(Served(r, "ok"),
                           <<quiz, participants, blocks, questionsMap, answers, written>>)
        /\ UNCHANGED <<quiz, participants, blocks, questionsMap, answers, ui, last>>

(* POST /quiz/:code/action *)

\* another action's handler holds the quiz it read and has not written it back
HoldsQuiz(req) == req.route = "action" /\ req.pc \notin {"getQuiz", "done"}

ActionGetQuiz(r) ==
    /\ At(r, "action", "getQuiz")
    /\ reqs' = [reqs EXCEPT ![r].held = ("quiz" :> quiz) @@ @,
                            ![r].pc = "getBlocks",
                            ![r].raced = \E o \in DOMAIN reqs : HoldsQuiz(reqs[o])]
    /\ UNCHANGED <<store, ui, last>>

ActionGetBlocks(r) ==
    /\ At(r, "action", "getBlocks")
    /\ Hold(r, "blocks", "getQuestions")
    /\ UNCHANGED <<store, ui, last>>

ActionGetQuestions(r) ==
    /\ At(r, "action", "getQuestions")
    /\ Hold(r, "questions", CASE reqs[r].body.action = "START_GAME" -> "setBlocks"
                              [] reqs[r].body.action = "RESTART_GAME" -> "setAnswers"
                              [] OTHER -> "setQuiz")
    /\ UNCHANGED <<store, ui, last>>

\* what the handler computes from the values it holds
Computed(req) ==
    ActionResult(req.held.quiz, req.held.blocks, req.held.questions,
                 req.body.action, req.body.payload, req.body.rnd)

ActionSetBlocks(r) ==
    /\ At(r, "action", "setBlocks")
    /\ blocks' = Computed(reqs[r]).blocks
    /\ reqs' = [reqs EXCEPT ![r].pc = "setQuiz", ![r].pre = store]
    /\ UNCHANGED <<quiz, participants, questionsMap, answers, guesses, ui, last>>

ActionSetAnswers(r) ==
    /\ At(r, "action", "setAnswers")
    /\ answers' = <<>>
    /\ reqs' = [reqs EXCEPT ![r].pc = "setGuesses", ![r].pre = store]
    /\ UNCHANGED <<quiz, participants, blocks, questionsMap, guesses, ui, last>>

ActionSetGuesses(r) ==
    /\ At(r, "action", "setGuesses")
    /\ guesses' = <<>>
    /\ reqs' = [reqs EXCEPT ![r].pc = "setQuiz"]
    /\ UNCHANGED <<quiz, participants, blocks, questionsMap, answers, ui, last>>

ActionSetQuiz(r) ==
    LET written == Computed(reqs[r]).quiz
    IN  /\ At(r, "action", "setQuiz")
        /\ quiz' = written
        /\ reqs' = Observe(Served(r, Computed(reqs[r]).result),
                           <<written, participants, blocks, questionsMap, answers, guesses>>)
        /\ UNCHANGED <<participants, blocks, questionsMap, answers, guesses, ui, last>>

(* GET /quiz/:code *)

StatePcs == <<"getQuiz", "getParticipants", "getBlocks", "getQuestions", "getAnswers",
              "getGuesses", "done">>

\* the six reads, one await each; the response goes out after the last
StateGet(r) ==
    /\ r \in DOMAIN reqs /\ reqs[r].route = "state" /\ InFlight(reqs, r)
    /\ LET i == CHOOSE k \in 1..6 : StatePcs[k] = reqs[r].pc
       IN  reqs' = [reqs EXCEPT ![r].held = (Keys[i] :> KvGet(Keys[i])) @@ @,
                                ![r].pc = StatePcs[i + 1],
                                ![r].result = IF i = 6 THEN "ok" ELSE @]
    /\ UNCHANGED <<store, ui, last>>

\* the body of the response of a served poll
Response(req) ==
    GetStateResult(req.held.quiz, req.held.participants, req.held.blocks,
                   req.held.questions, req.held.answers, req.held.guesses, req.body.token)

----------------------------------------------------------------------------
(* The sessions the concurrent requests arrive at *)

\* every player has joined and saved a block of one question, after the host's
\* h blocks of one question
FullHouse(h) ==
    [i \in 1..(h + MaxPlayers) |->
        IF i <= h THEN [player |-> 0, n |-> 1] ELSE [player |-> i - h, n |-> 1]]

\* such a session in its lobby, just started, or with the first player's answer
\* to the first question stored
InitConc ==
    /\ \E guessing \in BOOLEAN : \E h \in 0..MaxHostBlocks :
          \E stage \in {"lobby", "started", "answered"} :
             \E lobby \in {Lobby(guessing, MaxPlayers, FullHouse(h))} :
                \E started \in {ActionResult(lobby.quiz, lobby.blocks, lobby.questionsMap,
                                              "START_GAME", NoPayload, <<>>).quiz} :
                   /\ quiz = IF stage = "lobby" THEN lobby.quiz ELSE started
                   /\ participants = lobby.participants
                   /\ blocks = lobby.blocks
                   /\ questionsMap = lobby.questionsMap
                   /\ answers = IF stage = "answered"
                                THEN SubmitAnswerResult(<<>>, lobby.questionsMap,
                                                        lobby.participants[1].id,
                                                        started.current_question_id, "a")
                                ELSE <<>>
    /\ guesses = <<>>
    /\ ui = [showFinishConfirmation |-> FALSE]
    /\ last = NoRequest
    /\ reqs = <<>>

NextConc ==
    \/ \E route \in Routes : \E body \in Bodies(route) : Receive(route, body)
    \/ \E r \in 1..MaxInFlight :
          \/ AnswerGetAnswers(r)
          \/ AnswerGetQuestions(r)
          \/ AnswerSetAnswers(r)
          \/ GuessGetGuesses(r)
          \/ GuessGetBlocks(r)
          \/ GuessSetGuesses(r)
          \/ ActionGetQuiz(r)
          \/ ActionGetBlocks(r)
          \/ ActionGetQuestions(r)
          \/ ActionSetBlocks(r)
          \/ ActionSetAnswers(r)
          \/ ActionSetGuesses(r)
          \/ ActionSetQuiz(r)
          \/ StateGet(r)

SpecConc == InitConc /\ [][NextConc]_vars

----------------------------------------------------------------------------
(* Properties of the session served concurrently *)

Done(r) == r \in DOMAIN reqs /\ reqs[r].pc = "done"

\* the row a served answer or guess asked for is in the store
Kept(req) ==
    IF req.route = "answer"
    THEN \E a \in Range(answers) :
            /\ a.question_id = req.body.question_id
            /\ a.participant_id = req.body.participant_id
            /\ a.answer_text = req.body.answer_text
    ELSE \E g \in Range(guesses) :
            /\ g.block_id = req.body.block_id
            /\ g.guesser_participant_id = req.body.participant_id
            /\ g.guessed_participant_id = req.body.guessed_participant_id

\* C1: once two answers (or two guesses) of different participants have both been
\* served, however their reads and writes interleaved, both rows are in the store.
C1_BothSubmissionsKept ==
    \A i, j \in DOMAIN reqs :
        (/\ i # j /\ Done(i) /\ Done(j)
         /\ reqs[i].route \in {"answer", "guess"} /\ reqs[j].route = reqs[i].route
         /\ reqs[i].body.participant_id # reqs[j].body.participant_id)
        => (Kept(reqs[i]) /\ Kept(reqs[j]))

\* C2: of two host actions that read the quiz before either wrote it back, exactly
\* one is served "ok" and is the one the stored quiz results from; the other is
\* answered ConflictError.
C2_ConcurrentActionsSerialize ==
    \A i, j \in DOMAIN reqs :
        (/\ i # j /\ Done(i) /\ Done(j)
         /\ reqs[i].route = "action" /\ reqs[j].route = "action"
         /\ reqs[j].raced)
        => \E w \in {i, j} : \E l \in {i, j} \ {w} :
              /\ reqs[w].result = "ok" /\ reqs[l].result = "ConflictError"
              /\ quiz = Computed(reqs[w]).quiz

\* the six collections of a response
Snapshot(resp) ==
    <<resp.quiz, resp.participants, resp.blocks, resp.questions, resp.answers, resp.guesses>>

\* C10: the response of a served poll is the store as it stood between two
\* transitions at one instant of the poll (or just before it).
C10_PollSeesOneInstant ==
    \A r \in DOMAIN reqs :
        (reqs[r].route = "state" /\ Done(r)) => Snapshot(Response(reqs[r])) \in reqs[r].seen

----------------------------------------------------------------------------
(* The session in play: the players' answers and guesses, the host's grades,  *)
(* and a restart, served one request at a time                                *)

\* the rows the answers and the guesses arrays are let grow to
MaxRows == 2

\* the first player has saved a block of MaxQs questions (open and mcq in turn)
PlayHouse == <<[player |-> 1, n |-> MaxQs]>>

\* every player has joined, the block is saved and the host has started the game
InitPlay ==
    /\ \E guessing \in BOOLEAN :
          \E lobby \in {Lobby(guessing, MaxPlayers, PlayHouse)} :
             \E started \in {ActionResult(lobby.quiz, lobby.blocks, lobby.questionsMap,
                                           "START_GAME", NoPayload, <<>>)} :
                /\ quiz = started.quiz
                /\ participants = lobby.participants
                /\ blocks = started.blocks
                /\ questionsMap = lobby.questionsMap
    /\ answers = <<>>
    /\ guesses = <<>>
    /\ ui = [showFinishConfirmation |-> FALSE]
    /\ last = NoRequest
    /\ reqs = <<>>

NextPlay ==
    \/ \E body \in Bodies("answer") :
          /\ SubmitAnswer(body.participant_id, body.question_id, body.answer_text)
          /\ Len(answers') <= MaxRows
    \/ \E body \in Bodies("guess") :
          /\ SubmitGuess(body.participant_id, body.block_id, body.guessed_participant_id)
          /\ Len(guesses') <= MaxRows
    \/ \E p \in PlayerIds : \E q \in IdsOfQuestions(questionsMap) : \E c \in BOOLEAN :
          GradeAnswer(q, p, c)
    \/ HostAction("RESTART_GAME", NoPayload, <<>>)

SpecPlay == InitPlay /\ [][NextPlay]_vars

----------------------------------------------------------------------------
(* Properties of the session in play *)

\* the stored answer of a participant to a question, as a set (empty if none)
AnswersOf(as, question_id, participant_id) ==
    {a \in Range(as) : a.question_id = question_id /\ a.participant_id = participant_id}

IsOpen(qm, question_id) == FindQuestion(qm, question_id).type = "open"
IsMcq(qm, question_id) == FindQuestion(qm, question_id).type = "mcq"

\* C11: when an answer is submitted again to an open question and the stored
\* answer was already graded (is_correct true or false), the stored answer keeps
\* that is_correct: the resubmission never resets it to ungraded.
C11_ResubmissionKeepsGrade ==
    [][(last'.op = "answer" /\ IsOpen(questionsMap, last'.question_id))
       => \A a \in AnswersOf(answers, last'.question_id, last'.participant_id) :
             a.is_correct \in {"true", "false"}
             => \A b \in AnswersOf(answers', last'.question_id, last'.participant_id) :
                   b.is_correct = a.is_correct]_vars

\* C12: every stored answer to an mcq question has is_correct true exactly when
\* its text equals the question's correct_answer, whatever submissions,
\* resubmissions and grades were served.
C12_McqGradeIsAutomatic ==
    \A a \in Range(answers) :
        IsMcq(questionsMap, a.question_id)
        => a.is_correct = Tri(a.answer_text = FindQuestion(questionsMap, a.question_id).correct_answer)

\* C14: a grade changes is_correct on answers to open questions only: the stored
\* answers to mcq questions are the same after it as before.
C14_GradeLeavesMcqAlone ==
    [][last'.op = "grade"
       => \A i \in DOMAIN answers :
             IsMcq(questionsMap, answers[i].question_id)
             => (i \in DOMAIN answers' /\ answers'[i] = answers[i])]_vars

----------------------------------------------------------------------------
(* Answers submitted again while the first submission is still being served *)

\* the positions of a participant's answers to a question in the stored array
RowsOf(as, question_id, participant_id) ==
    {i \in DOMAIN as : /\ as[i].question_id = question_id
                        /\ as[i].participant_id = participant_id}

\* C13: once two submissions of one participant to one question have both been
\* served, however their reads and writes interleaved, the store holds exactly
\* one answer of that participant to that question and it carries the text of
\* the submission that was sent last.
C13_OneAnswerWithLatestText ==
    \A i, j \in DOMAIN reqs :
        (/\ i < j /\ Done(i) /\ Done(j)
         /\ reqs[i].route = "answer" /\ reqs[j].route = "answer"
         /\ reqs[i].body.question_id = reqs[j].body.question_id
         /\ reqs[i].body.participant_id = reqs[j].body.participant_id)
        => LET rows == RowsOf(answers, reqs[j].body.question_id, reqs[j].body.participant_id)
           IN  /\ Cardinality(rows) = 1
               /\ \A k \in rows : answers[k].answer_text = reqs[j].body.answer_text

----------------------------------------------------------------------------
(* Properties of the stored guesses *)

\* the author of the block a guess is about (Null if the block is not stored)
AuthorOf(bs, block_id) ==
    LET block == FindIndex(bs, [b \in Range(bs) |-> b.id = block_id])
    IN  IF block # 0 THEN bs[block].author_participant_id ELSE Null

\* C15: no stored guess was made by the author of its block (a guess by the
\* block's author is refused and nothing is stored).
C15_NoSelfGuessStored ==
    \A g \in Range(guesses) : g.guesser_participant_id # AuthorOf(blocks, g.block_id)

\* C16: every stored guess has is_correct true exactly when the participant it
\* names is the author of the block it is about.
C16_GuessCorrectIffAuthor ==
    \A g \in Range(guesses) :
        g.is_correct = (g.guessed_participant_id = AuthorOf(blocks, g.block_id))

\* a right guess and a wrong guess are both stored
C16_Witness ==
    /\ \E g \in Range(guesses) : g.is_correct
    /\ \E g \in Range(guesses) : ~g.is_correct

----------------------------------------------------------------------------
(* Properties of the restart *)

\* C19: a served RESTART_GAME leaves no answer and no guess, sets the status to
\* CREATION, and leaves the blocks, the questions and the participants as they were.
C19_RestartClearsGameOnly ==
    [][last'.op = "RESTART_GAME"
       => /\ answers' = <<>> /\ guesses' = <<>>
          /\ quiz'.status = "CREATION"
          /\ blocks' = blocks /\ questionsMap' = questionsMap
          /\ participants' = participants]_vars

\* a restart has been served in a session that has players, a block and questions
C19_Witness ==
    /\ last.op = "RESTART_GAME"
    /\ quiz.status = "CREATION" /\ answers = <<>> /\ guesses = <<>>
    /\ participants # <<>> /\ blocks # <<>> /\ IdsOfQuestions(questionsMap) # {}

----------------------------------------------------------------------------
(* The scores of the results screens *)

\* answers.filter(a => a.participant_id === p.id && a.is_correct).length
QPoints(as, participant_id) ==
    Cardinality({i \in DOMAIN as : /\ as[i].participant_id = participant_id
                                   /\ as[i].is_correct = "true"})

\* guesses.filter(g => g.guesser_participant_id === p.id && g.is_correct).length
GPoints(gs, participant_id) ==
    Cardinality({i \in DOMAIN gs : /\ gs[i].guesser_participant_id = participant_id
                                   /\ gs[i].is_correct})

\* the entry of the host dashboard's scores for a participant
DashboardScore(as, gs, participant_id) ==
    LET qPoints == QPoints(as, participant_id)
        gPoints == GPoints(gs, participant_id)
    IN  [qPoints |-> qPoints, gPoints |-> gPoints, score |-> qPoints + gPoints]

\* the total of the player's own results screen
PlayerFinishedTotal(as, gs, participant_id) ==
    LET myQPoints == QPoints(as, participant_id)
        myGPoints == GPoints(gs, participant_id)
    IN  myQPoints + myGPoints

\* the weights of the older dashboard's FinishedView
AnswerWeight == 10
GuessWeight == 5

FinishedViewScore(as, gs, participant_id) ==
    LET correctAnswers == QPoints(as, participant_id)
        correctGuesses == GPoints(gs, participant_id)
    IN  [correctAnswers |-> correctAnswers, correctGuesses |-> correctGuesses,
         score |-> correctAnswers * AnswerWeight + correctGuesses * GuessWeight]

\* the three totals computed for a participant
Totals(as, gs, participant_id) ==
    <<DashboardScore(as, gs, participant_id).score,
      PlayerFinishedTotal(as, gs, participant_id),
      FinishedViewScore(as, gs, participant_id).score>>

\* the request just served recorded a correct answer or a correct guess
RecordedCorrect(req, as, gs) ==
    CASE req.op = "answer" ->
            \E a \in AnswersOf(as, req.question_id, req.participant_id) : a.is_correct = "true"
      [] req.op = "grade" ->
            /\ req.is_correct
            /\ AnswersOf(as, req.question_id, req.participant_id) # {}
      [] req.op = "guess" ->
            \E g \in Range(gs) : /\ g.block_id = req.block_id
                                  /\ g.guesser_participant_id = req.participant_id
                                  /\ g.is_correct
      [] OTHER -> FALSE

\* C20: every participant's total is the sum of their question points and their
\* guess points (the numbers of their correct answers and correct guesses, each
\* times its weight), and a request that records a correct answer or a correct
\* guess lowers no participant's total.
C20_TotalIsSumAndGrows ==
    [][/\ \A p \in PlayerIds :
             /\ Totals(answers', guesses', p)[1] = QPoints(answers', p) + GPoints(guesses', p)
             /\ Totals(answers', guesses', p)[2] = QPoints(answers', p) + GPoints(guesses', p)
             /\ Totals(answers', guesses', p)[3] = QPoints(answers', p) * AnswerWeight
                                                    + GPoints(guesses', p) * GuessWeight
       /\ RecordedCorrect(last', answers', guesses')
          => \A p \in PlayerIds : \A k \in 1..3 :
                Totals(answers', guesses', p)[k] >= Totals(answers, guesses, p)[k]]_vars

\* a correct row was just recorded for a participant who now has both question
\* points and guess points
C20_Witness ==
    /\ RecordedCorrect(last, answers, guesses)
    /\ \E p \in PlayerIds :
          /\ last.participant_id = p
          /\ QPoints(answers, p) >= 1 /\ GPoints(guesses, p) >= 1
          /\ DashboardScore(answers, guesses, p).score >= 2

----------------------------------------------------------------------------
(* POST /quiz/join served concurrently *)

\* what the handler of request r computes from the participants it read
JoinResponse(r) ==
    LET ps == reqs[r].held.participants
    IN  JoinResult(ps, reqs[r].body.display_name, reqs[r].body.player_token,
                   FreshId({p.id : p \in Range(ps)}, "participant", r))

\* a blank name is answered 400 before the first await
JoinGetQuiz(r) ==
    /\ At(r, "join", "getQuiz")
    /\ reqs' = IF Trim(reqs[r].body.display_name) = <<>>
               THEN Served(r, "400")
               ELSE [reqs EXCEPT ![r].held = ("quiz" :> quiz) @@ @,
                                 ![r].pc = "getParticipants"]
    /\ UNCHANGED <<store, ui, last>>

\* a participant found by the token is returned without a write
JoinGetParticipants(r) ==
    /\ At(r, "join", "getParticipants")
    /\ \E read \in {[reqs EXCEPT ![r].held = ("participants" :> participants) @@ @]} :
          \E res \in {JoinResult(participants, reqs[r].body.display_name,
                                  reqs[r].body.player_token, Null)} :
             reqs' = IF res.write
                     THEN [read EXCEPT ![r].pc = "setParticipants"]
                     ELSE [read EXCEPT ![r].pc = "done", ![r].result = res.result]
    /\ UNCHANGED <<store, ui, last>>

JoinSetParticipants(r) ==
    /\ At(r, "join", "setParticipants")
    /\ participants' = JoinResponse(r).participants
    /\ reqs' = Served(r, JoinResponse(r).result)
    /\ UNCHANGED <<quiz, blocks, questionsMap, answers, guesses, ui, last>>

\* a new session that some of the players have joined
InitJoin ==
    /\ \E guessing \in BOOLEAN : \E n \in 0..MaxPlayers :
          \E lobby \in {Lobby(guessing, n, <<>>)} :
             /\ quiz = lobby.quiz
             /\ participants = lobby.participants
             /\ blocks = lobby.blocks
             /\ questionsMap = lobby.questionsMap
    /\ answers = <<>>
    /\ guesses = <<>>
    /\ ui = [showFinishConfirmation |-> FALSE]
    /\ last = NoRequest
    /\ reqs = <<>>

NextJoin ==
    \/ \E body \in Bodies("join") : Receive("join", body)
    \/ \E r \in 1..MaxInFlight :
          \/ JoinGetQuiz(r)
          \/ JoinGetParticipants(r)
          \/ JoinSetParticipants(r)

SpecJoin == InitJoin /\ [][NextJoin]_vars

----------------------------------------------------------------------------
(* Properties of the joins *)

\* the participants of an array that go by the name typed, compared as the
\* handler compares names
SameName(ps, name) ==
    {i \in DOMAIN ps : NormalizeName(ps[i].display_name) = NormalizeName(Trim(name))}

\* the participants of an array that hold a token
HoldersOf(ps, token) == {i \in DOMAIN ps : ps[i].player_token = token}

\* the join of request r found, among the participants it read, the one that
\* goes by its name, and resolved to them: same id, the token of the request
\* now theirs, no participant more
Reattached(r, i) ==
    LET ps == reqs[r].held.participants
        res == JoinResponse(r)
    IN  /\ res.participant = ps[i].id
        /\ Len(res.participants) = Len(ps)
        /\ res.participants[i].id = ps[i].id
        /\ res.participants[i].player_token = reqs[r].body.player_token

\* C18: a served join whose name (whatever its case and outer spaces) is that of
\* a participant, and which carries no token or a token that nobody in the
\* session holds, resolves to that participant, whose token becomes what the
\* request carried, and adds no participant.
C18_JoinByNameReattaches ==
    \A r \in DOMAIN reqs :
        (/\ reqs[r].route = "join" /\ Done(r) /\ reqs[r].result = "ok"
         /\ (reqs[r].body.player_token = Absent
             \/ HoldersOf(reqs[r].held.participants, reqs[r].body.player_token) = {}))
        => \A i \in SameName(reqs[r].held.participants, reqs[r].body.display_name) :
              Reattached(r, i)

\* no two stored participants go by the same normalized name or hold the same token
UniqueNamesAndTokens(ps) ==
    \A i, j \in DOMAIN ps :
        i # j => /\ NormalizeName(ps[i].display_name) # NormalizeName(ps[j].display_name)
                 /\ ps[i].player_token # ps[j].player_token

----------------------------------------------------------------------------
(* The join page of pages/Player/JoinQuiz.tsx, which registers the player in  *)
(* the quiz_participants table itself; participants stands for the table's    *)
(* rows of the quiz                                                           *)

\* supabase .eq('player_token', token).single(): the row, if there is exactly one
SingleByToken(ps, token) ==
    IF Cardinality(HoldersOf(ps, token)) = 1 THEN CHOOSE i \in HoldersOf(ps, token) : TRUE ELSE 0

\* handleJoin on the rows of the quiz: the rows it leaves
HandleJoinResult(ps, name, token, newId) ==
    LET trimmedName == Trim(name)
        existing == SingleByToken(ps, token)
        duplicateByName == FindIndex(ps, [p \in Range(ps) |->
                               NormalizeName(p.display_name) = NormalizeName(trimmedName)])
    IN  IF trimmedName = <<>>
        THEN [result |-> "invalid", participants |-> ps]
        ELSE IF existing = 0
        THEN IF duplicateByName # 0
             THEN [result |-> "joined",
                   participants |-> [ps EXCEPT ![duplicateByName].player_token = token]]
             ELSE [result |-> "joined",
                   participants |-> Append(ps, [id |-> newId,
                                                display_name |-> trimmedName,
                                                player_token |-> token])]
        ELSE IF NormalizeName(ps[existing].display_name) # NormalizeName(trimmedName)
        THEN [result |-> "joined",
              participants |-> [ps EXCEPT ![existing].display_name = trimmedName]]
        ELSE [result |-> "joined", participants |-> ps]

\* the token is the one kept in localStorage, or a new one
HandleJoin(name, token) ==
    LET r == HandleJoinResult(participants, name, token, RandomUUID("participant", 1))
    IN  /\ Len(r.participants) <= MaxPlayers
        /\ participants' = r.participants
        /\ last' = [op |-> "handleJoin", result |-> r.result,
                    display_name |-> name, player_token |-> token]
        /\ UNCHANGED <<quiz, blocks, questionsMap, answers, guesses, ui, reqs>>

InitJoinQuiz ==
    /\ \E guessing \in BOOLEAN : quiz = NewQuiz(guessing)
    /\ participants = <<>>
    /\ blocks = <<>>
    /\ questionsMap = <<>>
    /\ answers = <<>>
    /\ guesses = <<>>
    /\ ui = [showFinishConfirmation |-> FALSE]
    /\ last = NoRequest
    /\ reqs = <<>>

NextJoinQuiz == \E name \in JoinNames : \E token \in JoinTokens \ {Absent} : HandleJoin(name, token)

SpecJoinQuiz == InitJoinQuiz /\ [][NextJoinQuiz]_vars

\* C17: whatever joins and rejoins were made, no two participants of the session
\* go by the same normalized (trimmed, lower-cased) name and no two hold the
\* same device token.
C17_OneParticipantPerNameAndToken == UniqueNamesAndTokens(participants)

----------------------------------------------------------------------------
(* The session being written: blocks saved by the host and the players, the   *)
(* game started and restarted, served one request at a time                    *)

BlockIds == {b.id : b \in Range(blocks)}

\* a session created and joined by some of the players, nothing saved yet
InitEdit ==
    /\ \E guessing \in BOOLEAN : \E n \in 0..MaxPlayers :
          \E lobby \in {Lobby(guessing, n, <<>>)} :
             /\ quiz = lobby.quiz
             /\ participants = lobby.participants
             /\ blocks = lobby.blocks
             /\ questionsMap = lobby.questionsMap
    /\ answers = <<>>
    /\ guesses = <<>>
    /\ ui = [showFinishConfirmation |-> FALSE]
    /\ last = NoRequest
    /\ reqs = <<>>

\* the bodies the host's dashboard and the players' pages send: the host names a
\* block to edit or none; a player names themselves
SaveBodies ==
    {[participant_id |-> Absent, author_type |-> "host", block_id |-> b] :
        b \in BlockIds \cup {Absent}}
    \cup {[participant_id |-> p, author_type |-> "player", block_id |-> Absent] :
             p \in PlayerIds}

\* the questions sent: none, or a full draft
DraftLens == {0, MaxQs}

NextEdit ==
    \/ \E body \in SaveBodies : \E n \in DraftLens :
          SaveBlock(body.participant_id, body.author_type, body.block_id, Draft(n))
    \/ \E payload \in Payloads("START_GAME") : \E rnd \in Draws(blocks, payload) :
          HostAction("START_GAME", payload, rnd)
    \/ HostAction("RESTART_GAME", NoPayload, <<>>)

SpecEdit == InitEdit /\ [][NextEdit]_vars

----------------------------------------------------------------------------
(* Properties of the block order *)

\* the ids of the blocks of an array, in its order
IdsInOrder(bs) == [i \in DOMAIN bs |-> bs[i].id]

\* the host's blocks of an array, in its order
HostBlocksOf(bs) == SelectSeq(bs, LAMBDA b : IsHostAuthored(b))

\* every host-authored block stands before every participant-authored block
HostBlocksFirst(bs) ==
    \A i, j \in DOMAIN bs : (IsHostAuthored(bs[i]) /\ ~IsHostAuthored(bs[j])) => i < j

C22_StartLocksAndNumbersBlocks ==
    [][last'.op = "START_GAME"
       => \A i \in DOMAIN blocks' :
             blocks'[i].is_locked /\ blocks'[i].order_index = i - 1]_vars

----------------------------------------------------------------------------
(* POST /quiz/:code/block, one await at a time, beside START_GAME *)

\* the host's h blocks and the blocks of the first k players, one question each
SavedBy(h, k) ==
    [i \in 1..(h + k) |->
        IF i <= h THEN [player |-> 0, n |-> 1] ELSE [player |-> i - h, n |-> 1]]

\* every player has joined; some have saved their block
InitSave ==
    /\ \E guessing \in BOOLEAN : \E h \in 0..MaxHostBlocks : \E k \in 0..MaxPlayers :
          \E lobby \in {Lobby(guessing, MaxPlayers, SavedBy(h, k))} :
             /\ quiz = lobby.quiz
             /\ participants = lobby.participants
             /\ blocks = lobby.blocks
             /\ questionsMap = lobby.questionsMap
    /\ answers = <<>>
    /\ guesses = <<>>
    /\ ui = [showFinishConfirmation |-> FALSE]
    /\ last = NoRequest
    /\ reqs = <<>>

\* the bodies the lobby pages and the host's editor post
SaveRequests ==
    {[participant_id |-> b.participant_id, author_type |-> b.author_type,
      block_id |-> b.block_id, questions |-> Draft(n)] : b \in SaveBodies, n \in DraftLens}

\* START_GAME with the draws of a shuffle of as many blocks as there are players
StartRequests ==
    UNION {{[action |-> "START_GAME", payload |-> payload, rnd |-> rnd] :
               rnd \in RandomDraws(IF payload.shuffleBlocks THEN MaxPlayers ELSE 1)} :
           payload \in Payloads("START_GAME")}

\* a request that adds a host block
AddsHostBlock(req) ==
    req.route = "block" /\ req.body.author_type = "host" /\ req.body.block_id = Absent

\* the ids the handlers in flight have drawn and not yet stored
DrawnIds ==
    UNION {{reqs[o].held.newBlockId} \cup Range(reqs[o].held.uuid) :
           o \in {x \in DOMAIN reqs : "newBlockId" \in DOMAIN reqs[x].held}}

\* what the handler computes from the values it holds and the questions map qm
SaveComputed(req, qm) ==
    SaveBlockResult(req.held.quiz, req.held.blocks, qm,
                    req.body.participant_id, req.body.author_type, req.body.block_id,
                    req.body.questions, req.held.newBlockId, req.held.uuid)

\* the status check: a session that has left CREATION answers 400
SaveGetQuiz(r) ==
    /\ At(r, "block", "getQuiz")
    /\ reqs' = IF quiz.status # "CREATION"
               THEN Served(r, "400")
               ELSE [reqs EXCEPT ![r].held = ("quiz" :> quiz) @@ @, ![r].pc = "getBlocks"]
    /\ UNCHANGED <<store, ui, last>>

\* the blocks are read, the block is found or made, the array is sorted
SaveGetBlocks(r) ==
    /\ At(r, "block", "getBlocks")
    /\ \E read \in {[reqs EXCEPT ![r].held =
                        ("blocks" :> blocks
                         @@ "newBlockId" :> FreshId(UsedIds \cup DrawnIds, "block", 1)
                         @@ "uuid" :> [k \in 1..MaxQs |->
                                          FreshId(UsedIds \cup DrawnIds, "question", k)])
                        @@ @]} :
          reqs' = IF SaveComputed(read[r], questionsMap).result = "404"
                  THEN [read EXCEPT ![r].pc = "done", ![r].result = "404"]
                  ELSE [read EXCEPT ![r].pc = "setBlocks"]
    /\ UNCHANGED <<store, ui, last>>

SaveSetBlocks(r) ==
    /\ At(r, "block", "setBlocks")
    /\ blocks' = SaveComputed(reqs[r], questionsMap).blocks
    /\ reqs' = [reqs EXCEPT ![r].pc = "getQuestions"]
    /\ UNCHANGED <<quiz, participants, questionsMap, answers, guesses, ui, last>>

SaveGetQuestions(r) ==
    /\ At(r, "block", "getQuestions")
    /\ Hold(r, "questions", "setQuestions")
    /\ UNCHANGED <<store, ui, last>>

SaveSetQuestions(r) ==
    /\ At(r, "block", "setQuestions")
    /\ questionsMap' = SaveComputed(reqs[r], reqs[r].held.questions).questionsMap
    /\ reqs' = Served(r, "ok")
    /\ UNCHANGED <<quiz, participants, blocks, answers, guesses, ui, last>>

NextSave ==
    \/ \E body \in SaveRequests :
          /\ AddsHostBlock([route |-> "block", body |-> body])
             => NumHostBlocks(blocks)
                + Cardinality({o \in DOMAIN reqs : AddsHostBlock(reqs[o])}) < MaxHostBlocks
          /\ Receive("block", body)
    \/ \E body \in StartRequests : Receive("action", body)
    \/ \E r \in 1..MaxInFlight :
          \/ SaveGetQuiz(r)
          \/ SaveGetBlocks(r)
          \/ SaveSetBlocks(r)
          \/ SaveGetQuestions(r)
          \/ SaveSetQuestions(r)
          \/ ActionGetQuiz(r)
          \/ ActionGetBlocks(r)
          \/ ActionGetQuestions(r)
          \/ ActionSetBlocks(r)
          \/ ActionSetQuiz(r)

SpecSave == InitSave /\ [][NextSave]_vars

\* a START_GAME has written its block order
StartCommitted ==
    \E r \in DOMAIN reqs :
       /\ reqs[r].route = "action" /\ reqs[r].body.action = "START_GAME"
       /\ reqs[r].pc \in {"setQuiz", "done"}

\* every two blocks of old are in new, in the order they had
KeepsOrder(old, new) ==
    \A i, j \in DOMAIN old :
       i < j => \E a, b \in DOMAIN new :
                   a < b /\ new[a].id = old[i].id /\ new[b].id = old[j].id

\* C23: once a START_GAME has committed its block order, no step other than a
\* START_GAME's own write changes the order of the session's blocks
C23_OrderFixedAfterStart ==
    [][(/\ StartCommitted
        /\ ~ \E r \in DOMAIN reqs : At(r, "action", "setBlocks") /\ reqs'[r].pc = "setQuiz")
       => KeepsOrder(blocks, blocks')]_vars

----------------------------------------------------------------------------
(* The older lobby page (PlayerLobby) and the older dashboard's Start Game,
   writing the tables directly *)

\* the lobby pages of the first k players have loaded and made their empty blocks
Loaded(k) == [i \in 1..k |-> [player |-> i, n |-> 0]]

InitLobby ==
    /\ \E guessing \in BOOLEAN : \E k \in 0..MaxPlayers :
          \E lobby \in {Lobby(guessing, MaxPlayers, Loaded(k))} :
             /\ quiz = lobby.quiz
             /\ participants = lobby.participants
             /\ blocks = lobby.blocks
             /\ questionsMap = lobby.questionsMap
             /\ ui = [showFinishConfirmation |-> FALSE,
                      lobby |-> {b.author_participant_id : b \in Range(lobby.blocks)}]
    /\ answers = <<>>
    /\ guesses = <<>>
    /\ last = NoRequest
    /\ reqs = <<>>

\* the page's block: the one row of blocks whose author is the participant
LobbyBlock(p) == blocks[FindIndex(blocks, [b \in Range(blocks) |-> b.author_participant_id = p])]

\* the rows of blocks written by participant p
BlocksOf(p) == {i \in DOMAIN blocks : blocks[i].author_participant_id = p}

\* load, step 3 ("Get or Create Block"): the select with .single() yields the row
\* only if there is exactly one; the page then shows the lobby, or goes on to insert
LoadGetBlock(r) ==
    LET p == reqs[r].body.participant_id
    IN  /\ At(r, "load", "getQuiz")
        /\ IF Cardinality(BlocksOf(p)) = 1
           THEN /\ reqs' = Served(r, "ok")
                /\ ui' = [ui EXCEPT !.lobby = @ \cup {p}]
           ELSE /\ reqs' = [reqs EXCEPT ![r].pc = "insertBlock"]
                /\ UNCHANGED ui
        /\ UNCHANGED <<store, last>>

\* the insert of the participant's block, with the table's defaults
LoadInsertBlock(r) ==
    LET p == reqs[r].body.participant_id
        newBlock == [id |-> RandomUUID("block", 1), author_type |-> "player",
                     author_participant_id |-> p, is_locked |-> FALSE, order_index |-> Null]
    IN  /\ At(r, "load", "insertBlock")
        /\ blocks' = Append(blocks, newBlock)
        /\ questionsMap' = (newBlock.id :> <<>>) @@ questionsMap
        /\ reqs' = Served(r, "ok")
        /\ ui' = [ui EXCEPT !.lobby = @ \cup {p}]
        /\ UNCHANGED <<quiz, participants, answers, guesses, last>>

\* Add Question on the lobby page of participant p: the row is inserted unless the
\* page already shows max_questions_per_player questions
HandleAddQuestion(p) ==
    LET block == LobbyBlock(p)
        questions == QsOf(questionsMap, block.id)
        newQ == [id |-> RandomUUID("question", 1), block_id |-> block.id,
                 index_in_block |-> Len(questions), type |-> "open", correct_answer |-> ""]
    IN  /\ p \in ui.lobby
        /\ IF Len(questions) >= MaxQs
           THEN /\ last' = [op |-> "addQuestion", result |-> "max"]
                /\ UNCHANGED questionsMap
           ELSE /\ questionsMap' = [questionsMap EXCEPT ![block.id] = Append(questions, newQ)]
                /\ last' = [op |-> "addQuestion", result |-> "ok"]
        /\ UNCHANGED <<quiz, participants, blocks, answers, guesses, ui, reqs>>

\* the delete button of question id on the lobby page of participant p
HandleDeleteQuestion(p, id) ==
    LET block == LobbyBlock(p)
    IN  /\ p \in ui.lobby
        /\ questionsMap' = [questionsMap EXCEPT ![block.id] =
                               SelectSeq(@, LAMBDA q : q.id # id)]
        /\ last' = [op |-> "deleteQuestion", result |-> "ok"]
        /\ UNCHANGED <<quiz, participants, blocks, answers, guesses, ui, reqs>>

\* Start Game on the older dashboard: every block gets its place in a random order
\* and is locked, then the quiz is set to PLAY at the first block
HandleStartGame(rnd) ==
    LET shuffledBlocks == FisherYates(blocks, Len(blocks) - 1, rnd)
        firstBlock == shuffledBlocks[1]
        blockQuestions == QsOf(questionsMap, firstBlock.id)
    IN  /\ quiz.status = "CREATION" /\ blocks # <<>>
        /\ blocks' = [i \in DOMAIN shuffledBlocks |->
                         [shuffledBlocks[i] EXCEPT !.order_index = i - 1, !.is_locked = TRUE]]
        /\ quiz' = [quiz EXCEPT !.status = "PLAY",
                                !.current_block_id = firstBlock.id,
                                !.current_question_id =
                                    IF blockQuestions # <<>> THEN blockQuestions[1].id ELSE Null]
        /\ last' = [op |-> "handleStartGame", result |-> "ok"]
        /\ UNCHANGED <<participants, questionsMap, answers, guesses, ui, reqs>>

\* the realtime event of the quiz row reaches the page of participant p, which
\* leaves the lobby for the game
LobbyStatus(p) ==
    /\ p \in ui.lobby
    /\ quiz.status = "PLAY"
    /\ ui' = [ui EXCEPT !.lobby = @ \ {p}]
    /\ last' = [op |-> "navigate", result |-> "ok"]
    /\ UNCHANGED <<store, reqs>>

NextLobby ==
    \/ \E p \in PlayerIds : HandleAddQuestion(p)
    \/ \E p \in PlayerIds : \E id \in IdsOfQuestions(questionsMap) : HandleDeleteQuestion(p, id)
    \/ \E rnd \in RandomDraws(Len(blocks)) : HandleStartGame(rnd)
    \/ \E p \in PlayerIds : LobbyStatus(p)

SpecLobby == InitLobby /\ [][NextLobby]_vars

\* the lobby pages being opened, on one device or several at once
NextLoad ==
    \/ \E p \in PlayerIds : Receive("load", [participant_id |-> p])
    \/ \E r \in 1..MaxInFlight : LoadGetBlock(r)
    \/ \E r \in 1..MaxInFlight : LoadInsertBlock(r)

SpecLoad == InitLobby /\ [][NextLoad]_vars

\* C24: a save of block content made while the session is not in CREATION fails
\* as locked and leaves the session's blocks and questions as they were
C24_SaveOutsideCreationIsRejected ==
    [][(quiz.status # "CREATION" /\ last'.op \in {"block", "addQuestion", "deleteQuestion"})
       => /\ last'.result \in {"400", "locked"}
          /\ blocks' = blocks
          /\ questionsMap' = questionsMap]_vars

AuthorPhases == {"AUTHOR_GUESS", "AUTHOR_REVEAL"}

\* C26: while the session is played at a block, phase is AUTHOR_GUESS or
\* AUTHOR_REVEAL only if that block is participant-authored and
\* enable_author_guessing is true
C26_AuthorPhasesOnlyForGuessedBlocks ==
    (quiz.status = "PLAY" /\ quiz.phase \in AuthorPhases)
    => \A b \in Range(blocks) :
          b.id = quiz.current_block_id
          => ~IsHostAuthored(b) /\ quiz.enable_author_guessing

\* the quiz after the host has pressed Back: what the click sends is served, and a
\* Back button that is disabled or covered by the dialog sends nothing
AfterBack ==
    LET c == GoBack(HostView)
    IN  IF BackEnabled(HostView) /\ ~Modal /\ c.kind = "action"
        THEN ActionResult(quiz, blocks, questionsMap, c.action, c.payload, <<>>).quiz
        ELSE quiz

\* Back in the author phases: AUTHOR_REVEAL to AUTHOR_GUESS, AUTHOR_GUESS to the
\* block's last question
BackFromAuthorPhases ==
    LET v == HostView
    IN  /\ quiz.phase = "AUTHOR_REVEAL" => AfterBack.phase = "AUTHOR_GUESS"
        /\ (quiz.phase = "AUTHOR_GUESS" /\ BlockQs(v) # <<>>)
           => /\ AfterBack.phase = "QUESTION"
              /\ AfterBack.current_question_id = BlockQs(v)[Len(BlockQs(v))].id

\* Back within the questions: to the previous question, from a block's first
\* question to the previous block's AUTHOR_REVEAL, and nowhere from the first
\* question of the first block
BackFromQuestion ==
    LET v == HostView
        qi == CurrentQIdx(v)
        bi == CurrentBlockIdx(v)
    IN  quiz.phase = "QUESTION"
        => /\ qi > 1 => /\ AfterBack.phase = "QUESTION"
                        /\ AfterBack.current_question_id = BlockQs(v)[qi - 1].id
           /\ (qi = 1 /\ bi > 1)
              => /\ AfterBack.phase = "AUTHOR_REVEAL"
                 /\ AfterBack.current_block_id = blocks[bi - 1].id
           /\ (qi = 1 /\ bi = 1) => AfterBack = quiz

\* C27: Back moves AUTHOR_REVEAL to AUTHOR_GUESS, AUTHOR_GUESS to QUESTION at the
\* block's last question, a question to the previous question, a block's first
\* question to the previous block's AUTHOR_REVEAL, and changes nothing at the first
\* question of the first block
C27_BackNavigation ==
    (quiz.status = "PLAY" /\ ~Modal) => (BackFromAuthorPhases /\ BackFromQuestion)

----------------------------------------------------------------------------
(* The dashboard's grading view: pendingGrades and "Show Results" *)

\* the answers the first k players gave to the open question of the block
RECURSIVE Answered(_, _, _)
Answered(lobby, q, k) ==
    IF k = 0 THEN <<>>
    ELSE SubmitAnswerResult(Answered(lobby, q, k - 1), lobby.questionsMap,
                            lobby.participants[k].id, q, "a")

\* the game has been played and the host has pressed Start Grading
InitGrade ==
    /\ \E guessing \in BOOLEAN : \E k \in 0..MaxPlayers :
          \E lobby \in {Lobby(guessing, MaxPlayers, PlayHouse)} :
             \E started \in {ActionResult(lobby.quiz, lobby.blocks, lobby.questionsMap,
                                           "START_GAME", NoPayload, <<>>)} :
                /\ quiz = [started.quiz EXCEPT !.phase = "GRADING", !.current_question_id = Null]
                /\ participants = lobby.participants
                /\ blocks = started.blocks
                /\ questionsMap = lobby.questionsMap
                /\ answers = Answered(lobby, started.quiz.current_question_id, k)
    /\ guesses = <<>>
    /\ ui = [showFinishConfirmation |-> FALSE, pendingGrades |-> <<>>,
             actionLoading |-> FALSE, pc |-> "idle", entries |-> <<>>, i |-> 0,
             before |-> <<>>]
    /\ last = NoRequest
    /\ reqs = <<>>

\* {...prev, [key]: value}: an object keeps its keys in the order they were first set
SetKey(obj, question_id, participant_id, value) ==
    LET at == FindIndex(obj, [e \in Range(obj) |-> e.question_id = question_id
                                       /\ e.participant_id = participant_id])
        entry == [question_id |-> question_id, participant_id |-> participant_id,
                  value |-> value]
    IN  IF at # 0 THEN [obj EXCEPT ![at] = entry] ELSE Append(obj, entry)

GradingView == quiz.status = "PLAY" /\ quiz.phase = "GRADING"

\* Correct / Wrong on an answer to an open question
ClickGrade(question_id, participant_id, value) ==
    /\ GradingView /\ ~ui.actionLoading
    /\ FindQuestion(questionsMap, question_id).type = "open"
    /\ \E a \in Range(answers) :
          a.question_id = question_id /\ a.participant_id = participant_id
    /\ ui' = [ui EXCEPT !.pendingGrades = SetKey(@, question_id, participant_id, value)]
    /\ last' = [op |-> "pendingGrade", result |-> "ok"]
    /\ UNCHANGED <<store, reqs>>

\* "Show Results": goNext in GRADING calls handleSubmitGrades, which returns at
\* once when nothing is pending, and then sends FINISH_GAME
ClickShowResults ==
    /\ GradingView /\ ~ui.actionLoading
    /\ ui' = IF ui.pendingGrades = <<>>
             THEN [ui EXCEPT !.actionLoading = TRUE, !.pc = "finish"]
             ELSE [ui EXCEPT !.actionLoading = TRUE, !.pc = "grade",
                             !.entries = ui.pendingGrades, !.i = 1, !.before = answers]
    /\ last' = [op |-> "showResults", result |-> "ok"]
    /\ UNCHANGED <<store, reqs>>

\* one api.gradeAnswer of the loop is served; after the last one pendingGrades is
\* emptied
GradeServed ==
    LET e == ui.entries[ui.i]
        done == ui.i = Len(ui.entries)
    IN  /\ ui.pc = "grade"
        /\ answers' = GradeResult(answers, e.question_id, e.participant_id, e.value)
        /\ ui' = IF done THEN [ui EXCEPT !.pendingGrades = <<>>, !.pc = "finish"]
                 ELSE [ui EXCEPT !.i = @ + 1]
        /\ last' = IF done
                   THEN [op |-> "handleSubmitGrades", result |-> "ok"]
                   ELSE [op |-> "grade", result |-> "ok", participant_id |-> e.participant_id,
                         question_id |-> e.question_id, is_correct |-> e.value]
        /\ UNCHANGED <<quiz, participants, blocks, questionsMap, guesses, reqs>>

\* one api.gradeAnswer of the loop throws (the fetch fails or the response is not
\* ok): the catch shows the message and the loop is left
GradeFailed ==
    /\ ui.pc = "grade"
    /\ ui' = [ui EXCEPT !.pc = "finish"]
    /\ last' = [op |-> "handleSubmitGrades", result |-> "failed"]
    /\ UNCHANGED <<store, reqs>>

\* handleAction('FINISH_GAME') after handleSubmitGrades has returned
FinishAfterGrades ==
    /\ ui.pc = "finish"
    /\ quiz' = ActionResult(quiz, blocks, questionsMap, "FINISH_GAME", NoPayload, <<>>).quiz
    /\ ui' = [ui EXCEPT !.actionLoading = FALSE, !.pc = "idle"]
    /\ last' = [op |-> "FINISH_GAME", result |-> "ok"]
    /\ UNCHANGED <<participants, blocks, questionsMap, answers, guesses, reqs>>

NextGrade ==
    \/ \E q \in IdsOfQuestions(questionsMap) : \E p \in PlayerIds : \E v \in BOOLEAN :
          ClickGrade(q, p, v)
    \/ ClickShowResults
    \/ GradeServed
    \/ GradeFailed
    \/ FinishAfterGrades

SpecGrade == InitGrade /\ [][NextGrade]_vars

\* every grade of the batch is in the stored answers
AllRecorded(entries, as) ==
    \A i \in DOMAIN entries :
       \E a \in Range(as) :
          /\ a.question_id = entries[i].question_id
          /\ a.participant_id = entries[i].participant_id
          /\ a.is_correct = Tri(entries[i].value)

\* C28: when handleSubmitGrades has returned, either every grade of its batch is
\* recorded or the answers are as they were before the batch
C28_GradingBatchIsAtomic ==
    [][last'.op = "handleSubmitGrades"
       => (AllRecorded(ui'.entries, answers') \/ answers' = ui'.before)]_vars

\* C29: the participant a served join returned is in the session's participant
\* list in every later state
C29_JoinedParticipantStays ==
    \A r \in DOMAIN reqs :
       (reqs[r].route = "join" /\ Done(r) /\ reqs[r].result = "ok")
       => JoinResponse(r).participant \in PlayerIds

\* C30: each participant has at most one participant-authored block
C30_OneBlockPerParticipant ==
    \A i, j \in DOMAIN blocks :
       (/\ i # j
        /\ ~IsHostAuthored(blocks[i]) /\ ~IsHostAuthored(blocks[j]))
       => blocks[i].author_participant_id # blocks[j].author_participant_id

----------------------------------------------------------------------------
(* The question limits of a session and the start of play *)

\* POST /quiz/create: min_questions_per_player defaults to 1 and a smaller value is refused
MinQuestionsPerPlayer == 1

\* the questions stored for the blocks a participant authored
QuestionsBy(bs, qm, p) ==
    UNION {{<<bs[i].id, k>> : k \in DOMAIN QsOf(qm, bs[i].id)} :
              i \in {j \in DOMAIN bs : bs[j].author_participant_id = p}}

\* C31: a START_GAME takes a session from CREATION to PLAY only if every participant
\* has between min_questions_per_player and max_questions_per_player questions.
C31_StartNeedsQuestionsInRange ==
    [][(last'.op = "START_GAME" /\ quiz.status = "CREATION" /\ quiz'.status = "PLAY")
          => \A i \in DOMAIN participants :
                Cardinality(QuestionsBy(blocks, questionsMap, participants[i].id))
                    \in MinQuestionsPerPlayer..MaxQs]_vars

----------------------------------------------------------------------------
(* The lobby polled by the players while blocks are being saved *)

\* GET /quiz/:code served alone, for the X-Player-Token header it came with
GetState(token) ==
    /\ last' = [op |-> "state", result |-> "ok", token |-> token,
                response |-> GetStateResult(quiz, participants, blocks, questionsMap,
                                            answers, guesses, token)]
    /\ UNCHANGED <<store, ui, reqs>>

NextPoll ==
    \/ NextEdit
    \/ \E token \in JoinTokens : GetState(token)

SpecPoll == InitEdit /\ [][NextPoll]_vars

\* the blocks of an array that a participant authored
OwnBlockIds(bs, p) == {b.id : b \in {x \in Range(bs) : x.author_participant_id = p}}

\* C32: in CREATION, the response to a poll that carries a participant's token holds
\* that participant's blocks only, and questions of those blocks only.
C32_CreationViewIsOwnOnly ==
    [][(last'.op = "state" /\ quiz.status = "CREATION"
            /\ HoldersOf(participants, last'.token) # {})
          => \E i \in HoldersOf(participants, last'.token) :
                LET own == OwnBlockIds(blocks, participants[i].id)
                    r == last'.response
                IN  /\ \A b \in Range(r.blocks) : b.id \in own
                    /\ \A b \in DOMAIN r.questions : r.questions[b] # <<>> => b \in own]_vars

----------------------------------------------------------------------------
(* The session in play, sent ids it never issued *)

\* an id of the given kind that names nothing in the session
UnknownId(kind) ==
    FreshId(Used(quiz, participants, blocks, questionsMap, <<>>, <<>>), kind, 1)

AnyParticipant == PlayerIds \cup {UnknownId("participant")}
AnyQuestion == IdsOfQuestions(questionsMap) \cup {UnknownId("question")}
AnyBlock == BlockIds \cup {UnknownId("block")}

NextRefs ==
    \/ \E p \in AnyParticipant : \E q \in AnyQuestion :
          /\ SubmitAnswer(p, q, "a")
          /\ Len(answers') + Len(guesses) <= MaxRows
    \/ \E p \in AnyParticipant : \E b \in AnyBlock : \E g \in AnyParticipant :
          /\ SubmitGuess(p, b, g)
          /\ Len(answers) + Len(guesses') <= MaxRows
    \/ \E p \in AnyParticipant : \E q \in AnyQuestion : \E c \in BOOLEAN :
          GradeAnswer(q, p, c)

SpecRefs == InitPlay /\ [][NextRefs]_vars

\* C33: every stored answer names a question and a participant of the session, and
\* every stored guess names a block and two participants of the session.
C33_StoredRowsNameExistingThings ==
    /\ \A a \in Range(answers) :
          a.question_id \in IdsOfQuestions(questionsMap) /\ a.participant_id \in PlayerIds
    /\ \A g \in Range(guesses) :
          /\ g.block_id \in BlockIds
          /\ g.guesser_participant_id \in PlayerIds
          /\ g.guessed_participant_id \in PlayerIds

----------------------------------------------------------------------------
(* Properties of the stored questions *)

\* C34: in every state, no two questions of a block carry the same index_in_block.
C34_IndexInBlockIsUnique ==
    \A b \in DOMAIN questionsMap :
       \A i, j \in DOMAIN questionsMap[b] :
          i # j => questionsMap[b][i].index_in_block # questionsMap[b][j].index_in_block

----------------------------------------------------------------------------
(* The player's editor (PlayerCreation): the drafts it lets through to the    *)
(* block route                                                                *)

\* a question as the editor holds it; text is the sequence of typed characters
EditorQuestion(type, text, options, correct_answer) ==
    [id |-> Absent, type |-> type, text |-> text, options |-> options,
     correct_answer |-> correct_answer]

\* the question the editor starts with and adds: open, nothing typed
BlankQuestion == EditorQuestion("open", <<>>, <<"", "">>, "")

\* what a player can have typed into one question
EditorQuestions ==
    {BlankQuestion,
     EditorQuestion("open", <<"t">>, <<"", "">>, "a"),
     EditorQuestion("open", <<"t">>, <<"", "">>, ""),
     EditorQuestion("mcq", <<"t">>, <<"a", "b">>, "a"),
     EditorQuestion("mcq", <<"t">>, <<"a", "b">>, "c"),
     EditorQuestion("mcq", <<"t">>, <<"a">>, "a")}

EditorDrafts == UNION {[1..n -> EditorQuestions] : n \in 1..MaxQs}

\* q.text && q.text.trim() !== ''
HasText(q) == q.text # <<>> /\ Trim(q.text) # <<>>

\* the checks of handleSave before it sends: TRUE when none throws
Validated(questions) ==
    /\ Cardinality({i \in DOMAIN questions : HasText(questions[i])}) >= MinQuestionsPerPlayer
    /\ \A i \in DOMAIN questions :
          HasText(questions[i])
             => /\ ~(questions[i].type = "mcq" /\ Len(questions[i].options) < 2)
                /\ questions[i].correct_answer # ""

\* Save on the editor of participant p: the draft is sent to the block route
\* with the participant's id and no author_type, or an error is shown and nothing
\* is sent
HandleSave(p, questions) ==
    IF Validated(questions)
    THEN SaveBlock(p, "undefined", Absent, questions)
    ELSE /\ last' = [op |-> "handleSave", result |-> "invalid"]
         /\ UNCHANGED <<store, ui, reqs>>

NextDraft == \E p \in PlayerIds : \E questions \in EditorDrafts : HandleSave(p, questions)

\* a session created and joined by one player, nothing saved yet
InitDraft ==
    /\ \E guessing \in BOOLEAN :
          \E lobby \in {Lobby(guessing, 1, <<>>)} :
             /\ quiz = lobby.quiz
             /\ participants = lobby.participants
             /\ blocks = lobby.blocks
             /\ questionsMap = lobby.questionsMap
    /\ answers = <<>>
    /\ guesses = <<>>
    /\ ui = [showFinishConfirmation |-> FALSE]
    /\ last = NoRequest
    /\ reqs = <<>>

SpecDraft == InitDraft /\ [][NextDraft]_vars

\* an mcq has two options or more and its correct answer among them; an open
\* question has a correct answer that is not empty
WellFormed(q) ==
    IF q.type = "mcq"
    THEN Len(q.options) >= 2 /\ q.correct_answer \in Range(q.options)
    ELSE q.correct_answer # ""

\* C35: every stored question is well-formed.
C35_StoredQuestionsAreWellFormed ==
    \A b \in DOMAIN questionsMap : \A q \in Range(questionsMap[b]) : WellFormed(q)

----------------------------------------------------------------------------
(* The guesses of a session sent concurrently *)

NextGuess ==
    \/ \E body \in Bodies("guess") : Receive("guess", body)
    \/ \E r \in 1..MaxInFlight :
          \/ GuessGetGuesses(r)
          \/ GuessGetBlocks(r)
          \/ GuessSetGuesses(r)

SpecGuess == InitConc /\ [][NextGuess]_vars

\* the rows of the guesses array for a block and a guesser
GuessesOf(gs, block_id, participant_id) ==
    {i \in DOMAIN gs : gs[i].block_id = block_id
                       /\ gs[i].guesser_participant_id = participant_id}

\* C36: once a guess has been served, the session holds exactly one guess of that
\* guesser for that block, however the submissions interleaved.
C36_ExactlyOneGuessPerBlockAndGuesser ==
    \A r \in DOMAIN reqs :
        (Done(r) /\ reqs[r].route = "guess")
        => Cardinality(GuessesOf(guesses, reqs[r].body.block_id,
                                 reqs[r].body.participant_id)) = 1

----------------------------------------------------------------------------
(* Properties of late submissions *)

\* C37: an answer that is not for the current question of a session in PLAY and in
\* phase QUESTION, and a guess that is not for the current block in phase
\* AUTHOR_GUESS, leave the stored answers and guesses as they were.
C37_LateSubmissionChangesNothing ==
    [][/\ (last'.op = "answer"
              /\ ~(quiz.status = "PLAY" /\ quiz.phase = "QUESTION"
                       /\ last'.question_id = quiz.current_question_id))
          => answers' = answers
       /\ (last'.op = "guess"
              /\ ~(quiz.status = "PLAY" /\ quiz.phase = "AUTHOR_GUESS"
                       /\ last'.block_id = quiz.current_block_id))
          => guesses' = guesses]_vars

----------------------------------------------------------------------------
(* Properties of the forward actions *)

\* the action that moves a session in play forward from its phase
ForwardAction(q) ==
    CASE q.phase = "QUESTION" -> "NEXT_QUESTION"
      [] q.phase = "AUTHOR_GUESS" -> "REVEAL_AUTHOR"
      [] q.phase = "AUTHOR_REVEAL" -> "NEXT_BLOCK"
      [] OTHER -> "FINISH_GAME"

\* the quiz the route stores when it serves that action now
Forward(q) == ActionResult(q, blocks, questionsMap, ForwardAction(q), NoPayload, <<>>).quiz

\* the place of a block in the play order, 0 when no block has the id
PlaceOf(block_id) == FindIndex(blocks, [b \in Range(blocks) |-> b.id = block_id])

\* C38: in every state in PLAY the forward action of the phase changes the quiz,
\* and it does not move the current block to an earlier place.
C38_ForwardActionProgresses ==
    quiz.status = "PLAY"
       => /\ Forward(quiz) # quiz
          /\ Forward(quiz).status = "PLAY"
                => PlaceOf(Forward(quiz).current_block_id) >= PlaceOf(quiz.current_block_id)

----------------------------------------------------------------------------
(* Properties of the current pointers *)

\* C39: in PLAY, current_block_id names a block of the session, and
\* current_question_id is null or names a question of that block.
C39_PointersNameBlockAndQuestion ==
    quiz.status = "PLAY"
       => /\ quiz.current_block_id \in BlockIds
          /\ \/ quiz.current_question_id = Null
             \/ \E q \in Range(QsOf(questionsMap, quiz.current_block_id)) :
                   q.id = quiz.current_question_id

----------------------------------------------------------------------------
(* START_GAME on any stored block list *)

\* the author_type values a stored block can carry: the two the block route
\* writes, and none (a row written before the field existed)
AuthorTypes == {"host", "player", "undefined"}

\* a block list of any authorship, with ids in order of creation
AnyBlocks(ps) ==
    UNION {{[i \in 1..n |->
                [id |-> FreshId({}, "block", i), author_type |-> ty[i],
                 author_participant_id |-> au[i], is_locked |-> FALSE, order_index |-> 0]] :
              ty \in [1..n -> AuthorTypes],
              au \in [1..n -> {Null, Absent, ps[1].id}]} :
           n \in 0..(MaxHostBlocks + MaxPlayers)}

InitOrder ==
    /\ \E guessing \in BOOLEAN : quiz = NewQuiz(guessing)
    /\ participants = AfterJoins(MaxPlayers)
    /\ blocks \in AnyBlocks(participants)
    /\ questionsMap = <<>>
    /\ answers = <<>>
    /\ guesses = <<>>
    /\ ui = [showFinishConfirmation |-> FALSE]
    /\ last = NoRequest
    /\ reqs = <<>>

NextOrder ==
    \E payload \in Payloads("START_GAME") :
       \E rnd \in RandomDraws(IF payload.shuffleBlocks THEN Len(blocks) ELSE 1) :
          HostAction("START_GAME", payload, rnd)

SpecOrder == InitOrder /\ [][NextOrder]_vars

\* new is old with its elements in some order: none dropped, none twice
IsPermutation(old, new) ==
    /\ Len(new) = Len(old)
    /\ \E f \in [DOMAIN old -> DOMAIN old] :
          /\ \A i, j \in DOMAIN old : i # j => f[i] # f[j]
          /\ \A i \in DOMAIN old : new[i] = old[f[i]]

\* C40: the block list stored by START_GAME is a permutation of the list stored
\* before it, whatever author_type and author_participant_id the blocks carry.
C40_StartGamePermutesBlocks ==
    [][last'.op = "START_GAME" => IsPermutation(blocks, blocks')]_vars

\* a START_GAME has been served on a list holding a block without author_type, a
\* player's block without author and a host's block with an author
C40_Witness ==
    /\ last.op = "START_GAME"
    /\ \E b \in Range(blocks) : b.author_type = "undefined"
    /\ \E b \in Range(blocks) : b.author_type = "player" /\ Falsy(b.author_participant_id)
    /\ \E b \in Range(blocks) : b.author_type = "host" /\ ~Falsy(b.author_participant_id)

====
